---- MODULE Spec2Model ----
(***************************************************************************)
(* Room-booking API: the booking router (src/app/routers/bookings.py),    *)
(* the circuit breaker that guards the booking-create commit               *)
(* (src/app/circuit_breaker.py, a pybreaker.CircuitBreaker), the review    *)
(* router (src/app/routers/reviews.py), the profile updates of the user    *)
(* router (src/app/routers/users.py) and the room router                   *)
(* (src/app/routers/rooms.py).                                             *)
(*                                                                         *)
(* Each HTTP handler is one action.  `last` is the exchange just           *)
(* completed: the request as the handler received it and the status code   *)
(* it answered with.                                                       *)
(*                                                                         *)
(* The database is the one the tests run on (tests/conftest.py): SQLite    *)
(* without PRAGMA foreign_keys, so a booking row may name a room id that   *)
(* table rooms does not hold.  Commits fail only when force_fail is set.   *)
(***************************************************************************)
EXTENDS Integers, FiniteSets, Sequences, TLC

\* ---------------------------------------------------------------------
\* Bounds of the model
\* ---------------------------------------------------------------------
\* Booking timestamps are drawn from 0..MaxT.
MaxT == 2
\* Direct calls of overlaps take their four timestamps from 0..MaxStamp.
MaxStamp == 3
\* Review ratings are drawn from 1..MaxRating.
MaxRating == 2
\* Room capacities are drawn from 1..MaxCapacity.
MaxCapacity == 2
\* The clock is read every TickStep seconds.
TickStep == 30
\* Failed half-open trials keep adding to the failure counter; the model
\* stops failing trials once the counter has reached MaxCounter.
MaxCounter == 4

\* ---------------------------------------------------------------------
\* Program constants
\* ---------------------------------------------------------------------
fail_max == 3
reset_timeout == 60

\* The three accounts of tests/conftest.py: admin_user, regular_user,
\* facility_manager.
Users == {1, 2, 3}
RoleOf == [u \in Users |->
             IF u = 1 THEN "admin" ELSE IF u = 2 THEN "regular" ELSE "facility_manager"]

\* Their names and e-mail addresses to begin with, the values a profile
\* update may ask for (a new name; the admin's address, which is taken, or
\* a spare one), and the roles it may ask for.
InitialProfile == [u \in Users |->
                     [name |-> "old",
                      email |-> IF u = 1 THEN "e1" ELSE IF u = 2 THEN "e2" ELSE "e3"]]
NewNames == {"new"}
NewEmails == {"e1", "e4"}
NewRoles == {"admin", "regular"}

\* The room the tables start with (sample_room of tests/conftest.py).  Of
\* the columns of a room the model keeps name, capacity and is_available.
InitialRooms == [r \in {1} |-> [name |-> "A", capacity |-> 1, is_available |-> TRUE]]

\* Room ids and booking ids that requests and rows range over.
RoomIds == {1, 2}
BookingIds == {1, 2}
Times == 0..MaxT
\* Review ids, and the comments of reviews: None or a text.
ReviewIds == {1}
Comments == {"None", "good"}
Ratings == 1..MaxRating
\* Requested intervals [start_time, end_time).
Slots == {sl \in Times \X Times : sl[1] < sl[2]}

VARIABLES
    role,          \* users.role, by user id
    profile,       \* users.name and users.email, by user id
    rooms,         \* ids of the rows of table rooms
    room_fields,   \* the other columns of table rooms, by room id
    bookings,      \* rows of table bookings
    reviews,       \* rows of table reviews
    cb_state,      \* booking_circuit_breaker.current_state
    fail_counter,  \* booking_circuit_breaker.fail_counter
    pending,       \* by client connection, the create request in the handler
    elapsed,       \* seconds since the breaker last opened (utcnow() -
                   \* opened_at), kept up to reset_timeout and only while open
    last           \* the request just served and its response

vars == <<role, profile, rooms, room_fields, bookings, reviews,
          cb_state, fail_counter, elapsed, pending, last>>
userVars == <<role, profile>>
roomVars == <<rooms, room_fields>>
dbVars == <<userVars, roomVars, bookings, reviews>>
cbVars == <<cb_state, fail_counter, elapsed>>

\* ---------------------------------------------------------------------
\* bookings.py: overlaps
\* ---------------------------------------------------------------------
\* overlaps with the two comparisons made non-strict: intervals that only
\* touch count as overlapping.
overlaps_closed(start1, end1, start2, end2) == start1 <= end2 /\ start2 <= end1

\* overlaps with only its first comparison.
overlaps_first_comparison(start1, end1, start2, end2) == start1 < end2

\* overlaps testing whether the first interval starts inside the second.
overlaps_starts_inside(start1, end1, start2, end2) ==
    start2 <= start1 /\ start1 < end2

\* Two half-open intervals [start1, end1) and [start2, end2).
overlaps(start1, end1, start2, end2) == start1 < end2 /\ start2 < end1

\* ---------------------------------------------------------------------
\* Shapes
\* ---------------------------------------------------------------------
Booking(id, user_id, room_id, start_time, end_time) ==
    [id |-> id, user_id |-> user_id, room_id |-> room_id,
     start_time |-> start_time, end_time |-> end_time]

\* A served request: operation, authenticated user (0 if the route takes
\* none), booking id (of the path, or of the row created; 0 if none), the
\* request's room_id, start_time and end_time, the force_fail query
\* parameter, and the status code.  Of the response body the exchange keeps
\* the rows of a listing and the available flag of an availability check.
Exchange(op, actor, id, room_id, start_time, end_time, force_fail, status) ==
    [op |-> op, actor |-> actor, id |-> id, room_id |-> room_id,
     start_time |-> start_time, end_time |-> end_time,
     force_fail |-> force_fail, status |-> status,
     listed |-> {}, available |-> FALSE]

\* models.Booking.id is an autoincrement primary key: a new row gets an id
\* above every id in the table.
FreshIds == {i \in BookingIds : \A b \in bookings : i > b.id}

\* ---------------------------------------------------------------------
\* booking_circuit_breaker = pybreaker.CircuitBreaker(fail_max=3,
\* reset_timeout=60), with the library's defaults otherwise: every
\* exception counts as a failure, and the failure that opens the breaker
\* is reported to the caller as CircuitBreakerError.  A call holds the
\* breaker's lock from before_call to the end of on_success/on_failure.
\* ---------------------------------------------------------------------
\* CircuitOpenState.before_call: utcnow() < opened_at + reset_timeout.
timeout_not_elapsed == elapsed < reset_timeout

\* before_call with the comparison against the timeout the wrong way round.
before_call_rejects_after_timeout == cb_state = "open" /\ ~timeout_not_elapsed

\* An open breaker whose timeout has not elapsed raises CircuitBreakerError
\* without calling the wrapped function.
before_call_rejects == cb_state = "open" /\ timeout_not_elapsed

\* The state the wrapped function runs in: an open breaker whose timeout
\* has elapsed moves to half-open and makes the call as the trial.
call_state == IF cb_state = "open" THEN "half-open" ELSE cb_state

\* on_failure opening only once the counter exceeds fail_max.
on_failure_opens_late(state, counter) ==
    state = "half-open" \/ counter > fail_max

\* CircuitClosedState.on_failure opens the breaker once the counter has
\* reached fail_max; CircuitHalfOpenState.on_failure always opens it.
on_failure_opens(state, counter) ==
    state = "half-open" \/ counter >= fail_max

\* A breaker that always re-raises the function's own error.
raised_on_failure_own_error(state, counter) == "RuntimeError"

\* What the caller of the wrapped function sees for a failure: the breaker
\* replaces the error by CircuitBreakerError when the failure opens it,
\* and re-raises the function's own error otherwise.
raised_on_failure(state, counter) ==
    IF on_failure_opens(state, counter) THEN "CircuitBreakerError" ELSE "RuntimeError"

\* create_booking's except clauses: CircuitBreakerError -> 503,
\* RuntimeError -> 500.
status_of(exc) == IF exc = "CircuitBreakerError" THEN 503 ELSE 500

\* handle_error with open() leaving opened_at as it was.
handle_error_keeps_opened_at ==
    /\ fail_counter' = fail_counter + 1
    /\ cb_state' = IF on_failure_opens(call_state, fail_counter + 1)
                     THEN "open" ELSE call_state
    /\ UNCHANGED elapsed

\* The wrapped function raised: _handle_error counts the failure, then
\* on_failure decides whether the breaker opens (opened_at = utcnow()).
handle_error ==
    /\ fail_counter' = fail_counter + 1
    /\ IF on_failure_opens(call_state, fail_counter + 1)
         THEN cb_state' = "open" /\ elapsed' = 0
         ELSE cb_state' = call_state /\ UNCHANGED elapsed

\* _handle_success leaving the failure counter as it was.
handle_success_keeps_counter ==
    /\ cb_state' = "closed"
    /\ elapsed' = 0
    /\ UNCHANGED fail_counter

\* The wrapped function returned: _handle_success resets the counter and a
\* half-open breaker closes.  opened_at is not read while closed.
handle_success ==
    /\ fail_counter' = 0
    /\ cb_state' = "closed"
    /\ elapsed' = 0

\* ---------------------------------------------------------------------
\* POST /bookings/
\* ---------------------------------------------------------------------
\* _save_booking raising its simulated failure after db.add and db.commit
\* instead of before them.
save_booking_commits_before_failing(u, r, s, e, ff) ==
    IF before_call_rejects
      THEN /\ last' = Exchange("create", u, 0, r, s, e, ff, 503)
           /\ UNCHANGED <<dbVars, cbVars>>
      ELSE IF ff
        THEN /\ fail_counter < MaxCounter
             /\ handle_error
             /\ last' = Exchange("create", u, 0, r, s, e, ff,
                           status_of(raised_on_failure(call_state, fail_counter + 1)))
             /\ \E id \in FreshIds :
                  bookings' = bookings \cup {Booking(id, u, r, s, e)}
             /\ UNCHANGED <<userVars, roomVars, reviews>>
        ELSE /\ \E id \in FreshIds :
                  /\ bookings' = bookings \cup {Booking(id, u, r, s, e)}
                  /\ last' = Exchange("create", u, id, r, s, e, ff, 200)
             /\ handle_success
             /\ UNCHANGED <<userVars, roomVars, reviews>>

\* The breaker-wrapped _save_booking and the try/except around it.
save_booking(u, r, s, e, ff) ==
    IF before_call_rejects
      THEN /\ last' = Exchange("create", u, 0, r, s, e, ff, 503)
           /\ UNCHANGED <<dbVars, cbVars>>
      ELSE IF ff
        THEN /\ fail_counter < MaxCounter
             /\ handle_error
             /\ last' = Exchange("create", u, 0, r, s, e, ff,
                           status_of(raised_on_failure(call_state, fail_counter + 1)))
             /\ UNCHANGED dbVars
        ELSE /\ \E id \in FreshIds :
                  /\ bookings' = bookings \cup {Booking(id, u, r, s, e)}
                  /\ last' = Exchange("create", u, id, r, s, e, ff, 200)
             /\ handle_success
             /\ UNCHANGED <<userVars, roomVars, reviews>>

\* create_booking with the overlap scan of update_booking run for every
\* role, admin included.
create_booking_scan_all_roles(u, r, s, e, ff) ==
    IF \E b \in bookings : b.room_id = r /\ overlaps(s, e, b.start_time, b.end_time)
      THEN /\ last' = Exchange("create", u, 0, r, s, e, ff, 400)
           /\ UNCHANGED <<dbVars, cbVars>>
      ELSE save_booking(u, r, s, e, ff)

\* create_booking with the breaker wrapped around the commits of non-admin
\* users only.
create_booking_admin_unguarded(u, r, s, e, ff) ==
    IF role[u] # "admin" THEN save_booking(u, r, s, e, ff)
    ELSE IF ff
      THEN /\ last' = Exchange("create", u, 0, r, s, e, ff, 500)
           /\ UNCHANGED <<dbVars, cbVars>>
      ELSE /\ \E id \in FreshIds :
                /\ bookings' = bookings \cup {Booking(id, u, r, s, e)}
                /\ last' = Exchange("create", u, id, r, s, e, ff, 200)
           /\ UNCHANGED <<userVars, roomVars, reviews, cbVars>>

\* create_booking with the overlap scan run for non-admin actors inside the
\* guarded commit, so that one room's creates are served one after another.
create_booking_serialized_per_room(u, r, s, e, ff) ==
    IF /\ role[u] # "admin"
       /\ \E b \in bookings : b.room_id = r /\ overlaps(s, e, b.start_time, b.end_time)
      THEN /\ last' = Exchange("create", u, 0, r, s, e, ff, 400)
           /\ UNCHANGED <<dbVars, cbVars>>
      ELSE save_booking(u, r, s, e, ff)

\* The live handler builds the Booking from the request and goes straight
\* to the guarded commit: it looks up neither the room nor the room's
\* other bookings.
create_booking(u, r, s, e, ff) == save_booking(u, r, s, e, ff)

\* ---------------------------------------------------------------------
\* PATCH /bookings/{booking_id}
\* ---------------------------------------------------------------------
\* The scan of update_booking without the filter on the booking's own id.
existing_for_update_with_self(booking_id, room_id) ==
    {b \in bookings : b.room_id = room_id}

\* The scan of update_booking run over the room the booking is in before
\* the update instead of the requested room.
existing_for_update_old_room(booking_id, room_id) ==
    {b \in bookings : /\ b.id # booking_id
                      /\ \E own \in bookings : own.id = booking_id /\ b.room_id = own.room_id}

\* The rows the overlap scan runs over: the bookings of the requested room
\* other than the one being updated.
existing_for_update(booking_id, room_id) ==
    {b \in bookings : b.room_id = room_id /\ b.id # booking_id}

\* update_booking writing the caller's id into the row it updates.
update_booking_takes_ownership(booking_id, u, r, s, e) ==
    LET found == {b \in bookings : b.id = booking_id}
        Answer(st) == /\ last' = Exchange("update", u, booking_id, r, s, e, FALSE, st)
                      /\ UNCHANGED <<dbVars, cbVars, pending>>
    IN  IF found = {} THEN Answer(404)
        ELSE LET booking == CHOOSE b \in found : TRUE IN
          IF booking.user_id # u /\ role[u] # "admin" THEN Answer(403)
          ELSE IF /\ role[u] # "admin"
                  /\ \E b \in existing_for_update(booking_id, r) :
                        overlaps(s, e, b.start_time, b.end_time)
            THEN Answer(400)
            ELSE /\ bookings' = (bookings \ {booking})
                       \cup {Booking(booking.id, u, r, s, e)}
                 /\ last' = Exchange("update", u, booking_id, r, s, e, FALSE, 200)
                 /\ UNCHANGED <<userVars, roomVars, reviews, cbVars, pending>>

\* update_booking with its commit behind the breaker: rejected with 503
\* while the breaker is open and its timeout has not elapsed.
update_booking_behind_breaker(booking_id, u, r, s, e) ==
    LET found == {b \in bookings : b.id = booking_id}
        Answer(st) == /\ last' = Exchange("update", u, booking_id, r, s, e, FALSE, st)
                      /\ UNCHANGED <<dbVars, cbVars, pending>>
    IN  IF found = {} THEN Answer(404)
        ELSE LET booking == CHOOSE b \in found : TRUE IN
          IF booking.user_id # u /\ role[u] # "admin" THEN Answer(403)
          ELSE IF /\ role[u] # "admin"
                  /\ \E b \in existing_for_update(booking_id, r) :
                        overlaps(s, e, b.start_time, b.end_time)
            THEN Answer(400)
            ELSE IF before_call_rejects THEN Answer(503)
            ELSE /\ bookings' = (bookings \ {booking})
                       \cup {Booking(booking.id, booking.user_id, r, s, e)}
                 /\ last' = Exchange("update", u, booking_id, r, s, e, FALSE, 200)
                 /\ UNCHANGED <<userVars, roomVars, reviews, cbVars, pending>>

update_booking(booking_id, u, r, s, e) ==
    LET found == {b \in bookings : b.id = booking_id}
        Answer(st) == /\ last' = Exchange("update", u, booking_id, r, s, e, FALSE, st)
                      /\ UNCHANGED <<dbVars, cbVars, pending>>
    IN  IF found = {} THEN Answer(404)
        ELSE LET booking == CHOOSE b \in found : TRUE IN
          IF booking.user_id # u /\ role[u] # "admin" THEN Answer(403)
          ELSE IF /\ role[u] # "admin"
                  /\ \E b \in existing_for_update(booking_id, r) :
                        overlaps(s, e, b.start_time, b.end_time)
            THEN Answer(400)
            ELSE /\ bookings' = (bookings \ {booking})
                       \cup {Booking(booking.id, booking.user_id, r, s, e)}
                 /\ last' = Exchange("update", u, booking_id, r, s, e, FALSE, 200)
                 /\ UNCHANGED <<userVars, roomVars, reviews, cbVars, pending>>

\* ---------------------------------------------------------------------
\* DELETE /bookings/{booking_id}
\* ---------------------------------------------------------------------
\* cancel_booking with facility managers let through like admins.
cancel_booking_managers_allowed(booking_id, u) ==
    LET found == {b \in bookings : b.id = booking_id}
        Answer(st) == /\ last' = Exchange("cancel", u, booking_id, 0, 0, 0, FALSE, st)
                      /\ UNCHANGED <<dbVars, cbVars, pending>>
    IN  IF found = {} THEN Answer(404)
        ELSE LET booking == CHOOSE b \in found : TRUE IN
          IF booking.user_id # u /\ role[u] \notin {"admin", "facility_manager"}
            THEN Answer(403)
            ELSE /\ bookings' = bookings \ {booking}
                 /\ last' = Exchange("cancel", u, booking_id, 0, 0, 0, FALSE, 200)
                 /\ UNCHANGED <<userVars, roomVars, reviews, cbVars, pending>>

\* cancel_booking answering 200 without deleting the row.
cancel_booking_keeps_row(booking_id, u) ==
    LET found == {b \in bookings : b.id = booking_id}
        Answer(st) == /\ last' = Exchange("cancel", u, booking_id, 0, 0, 0, FALSE, st)
                      /\ UNCHANGED <<dbVars, cbVars, pending>>
    IN  IF found = {} THEN Answer(404)
        ELSE LET booking == CHOOSE b \in found : TRUE IN
          IF booking.user_id # u /\ role[u] # "admin" THEN Answer(403)
          ELSE Answer(200)

cancel_booking(booking_id, u) ==
    LET found == {b \in bookings : b.id = booking_id}
        Answer(st) == /\ last' = Exchange("cancel", u, booking_id, 0, 0, 0, FALSE, st)
                      /\ UNCHANGED <<dbVars, cbVars, pending>>
    IN  IF found = {} THEN Answer(404)
        ELSE LET booking == CHOOSE b \in found : TRUE IN
          IF booking.user_id # u /\ role[u] # "admin" THEN Answer(403)
          ELSE /\ bookings' = bookings \ {booking}
               /\ last' = Exchange("cancel", u, booking_id, 0, 0, 0, FALSE, 200)
               /\ UNCHANGED <<userVars, roomVars, reviews, cbVars, pending>>

\* ---------------------------------------------------------------------
\* POST /bookings/ served to several clients at once.  create_booking is a
\* plain def, which FastAPI runs on a thread of its pool: a request that
\* has been received sits in the handler, its Booking object built, until
\* its thread gets the breaker's lock and runs the guarded commit.
\* ---------------------------------------------------------------------
Clients == {1, 2}

\* The request of a client: where it stands, what it asks for, and, once
\* answered, the status, the id of the row created, and the clients whose
\* request was in the handler when this one was committed.
Request(pc, actor, room_id, start_time, end_time, force_fail, status, id, in_flight) ==
    [pc |-> pc, actor |-> actor, room_id |-> room_id,
     start_time |-> start_time, end_time |-> end_time, force_fail |-> force_fail,
     status |-> status, id |-> id, in_flight |-> in_flight]
Idle == Request("idle", 0, 0, 0, 0, FALSE, 0, 0, {})

\* The handler up to the call of _save_booking: it reads no table.
receive_create(c, u, r, s, e, ff) ==
    /\ pending[c].pc = "idle"
    /\ pending' = [pending EXCEPT ![c] = Request("received", u, r, s, e, ff, 0, 0, {})]
    /\ UNCHANGED <<dbVars, cbVars, last>>

\* The breaker with no lock around a call: the wrapped function of a
\* request ran against the counter the request read on its way in, so a
\* failure counted by another request in between is overwritten.
respond_create_unlocked(c) ==
    /\ pending[c].pc = "received"
    /\ create_booking(pending[c].actor, pending[c].room_id,
                      pending[c].start_time, pending[c].end_time,
                      pending[c].force_fail)
         \/ /\ pending[c].force_fail /\ cb_state = "closed" /\ fail_counter > 0
            /\ last' = Exchange("create", pending[c].actor, 0, pending[c].room_id,
                                pending[c].start_time, pending[c].end_time, TRUE, 500)
            /\ UNCHANGED <<dbVars, cbVars>>
    /\ pending' = [pending EXCEPT ![c] =
                     Request("responded", @.actor, @.room_id, @.start_time, @.end_time,
                             @.force_fail, last'.status, last'.id,
                             {d \in Clients \ {c} : pending[d].pc = "received"})]

\* The guarded commit and the response.  pybreaker's call() holds the
\* breaker's lock from before_call to the end of on_success/on_failure, so
\* the commits of the requests in the handler run one at a time.
respond_create(c) ==
    /\ pending[c].pc = "received"
    /\ create_booking(pending[c].actor, pending[c].room_id,
                      pending[c].start_time, pending[c].end_time,
                      pending[c].force_fail)
    /\ pending' = [pending EXCEPT ![c] =
                     Request("responded", @.actor, @.room_id, @.start_time, @.end_time,
                             @.force_fail, last'.status, last'.id,
                             {d \in Clients \ {c} : pending[d].pc = "received"})]

\* The client has read its response; its connection may carry a new
\* request.
complete_create(c) ==
    /\ pending[c].pc = "responded"
    /\ pending' = [pending EXCEPT ![c] = Idle]
    /\ UNCHANGED <<dbVars, cbVars, last>>

\* ---------------------------------------------------------------------
\* PATCH /bookings/{booking_id} served to several clients at once.
\* update_booking is a plain def run on a thread of the pool, with a
\* session of its own: it reads the booking and the other bookings of the
\* requested room, and writes later, at db.commit(); nothing is locked in
\* between.
\* ---------------------------------------------------------------------
\* The handler up to the end of the overlap loop.  A request that is
\* refused is answered at once; one that passes waits for its commit.
update_scan(c, booking_id, u, r, s, e) ==
    LET found == {b \in bookings : b.id = booking_id}
        Answer(st) ==
            /\ last' = Exchange("update", u, booking_id, r, s, e, FALSE, st)
            /\ pending' = [pending EXCEPT ![c] =
                             Request("responded", u, r, s, e, FALSE, st, booking_id, {})]
    IN  /\ pending[c].pc = "idle"
        /\ IF found = {} THEN Answer(404)
           ELSE LET booking == CHOOSE b \in found : TRUE IN
             IF booking.user_id # u /\ role[u] # "admin" THEN Answer(403)
             ELSE IF /\ role[u] # "admin"
                     /\ \E b \in existing_for_update(booking_id, r) :
                           overlaps(s, e, b.start_time, b.end_time)
               THEN Answer(400)
               ELSE /\ pending' = [pending EXCEPT ![c] =
                                     Request("scanned", u, r, s, e, FALSE, 0, booking_id, {})]
                    /\ UNCHANGED last
        /\ UNCHANGED <<dbVars, cbVars>>

\* The commit repeating the overlap scan on the rows it finds, as it would
\* under a lock on the room.
update_commit_rescans(c) ==
    LET req == pending[c]
        found == {b \in bookings : b.id = req.id}
        clash == \E b \in existing_for_update(req.id, req.room_id) :
                     overlaps(req.start_time, req.end_time, b.start_time, b.end_time)
    IN  /\ req.pc = "scanned"
        /\ found # {}
        /\ bookings' = IF clash THEN bookings
                       ELSE (bookings \ found) \cup
                            {Booking(b.id, b.user_id, req.room_id,
                                     req.start_time, req.end_time) : b \in found}
        /\ last' = Exchange("update", req.actor, req.id, req.room_id,
                            req.start_time, req.end_time, FALSE,
                            IF clash THEN 400 ELSE 200)
        /\ pending' = [pending EXCEPT ![c] =
                         Request("responded", @.actor, @.room_id, @.start_time,
                                 @.end_time, FALSE, last'.status, @.id,
                                 {d \in Clients \ {c} : pending[d].pc = "scanned"})]
        /\ UNCHANGED <<userVars, roomVars, reviews, cbVars>>

\* The three assignments and db.commit(): the UPDATE of the booking's row
\* by its id, with the values of the request, and the response.
\* (The row is still there: no booking is cancelled while updates are in
\* the handler.)
update_commit(c) ==
    LET req == pending[c]
        found == {b \in bookings : b.id = req.id}
    IN  /\ req.pc = "scanned"
        /\ found # {}
        /\ bookings' = (bookings \ found) \cup
                          {Booking(b.id, b.user_id, req.room_id,
                                   req.start_time, req.end_time) : b \in found}
        /\ last' = Exchange("update", req.actor, req.id, req.room_id,
                            req.start_time, req.end_time, FALSE, 200)
        /\ pending' = [pending EXCEPT ![c] =
                         Request("responded", @.actor, @.room_id, @.start_time,
                                 @.end_time, FALSE, 200, @.id,
                                 {d \in Clients \ {c} : pending[d].pc = "scanned"})]
        /\ UNCHANGED <<userVars, roomVars, reviews, cbVars>>

\* ---------------------------------------------------------------------
\* GET /bookings/
\* ---------------------------------------------------------------------
\* list_bookings with the unfiltered query kept for admins only.
list_bookings_admin_only(u) ==
    /\ last' = [Exchange("list", u, 0, 0, 0, 0, FALSE, 200) EXCEPT
                  !.listed = IF role[u] = "admin"
                               THEN bookings
                               ELSE {b \in bookings : b.user_id = u}]
    /\ UNCHANGED <<dbVars, cbVars, pending>>

\* Admins and facility managers get every row, anyone else the rows whose
\* user_id is their own.
list_bookings(u) ==
    /\ last' = [Exchange("list", u, 0, 0, 0, 0, FALSE, 200) EXCEPT
                  !.listed = IF role[u] \in {"admin", "facility_manager"}
                               THEN bookings
                               ELSE {b \in bookings : b.user_id = u}]
    /\ UNCHANGED <<dbVars, cbVars, pending>>

\* ---------------------------------------------------------------------
\* GET /bookings/check
\* ---------------------------------------------------------------------
\* The query of check_room_availability without its filter on the room.
existing_for_check_any_room(room_id) == bookings

\* The rows the availability check scans: the bookings of the room.
existing_for_check(room_id) == {b \in bookings : b.room_id = room_id}

\* The route takes no user.  404 if the room is missing; otherwise
\* available is False as soon as one scanned row overlaps the interval.
check_room_availability(room_id, start_time, end_time) ==
    /\ last' = IF room_id \notin rooms
                 THEN Exchange("check", 0, 0, room_id, start_time, end_time, FALSE, 404)
                 ELSE [Exchange("check", 0, 0, room_id, start_time, end_time, FALSE, 200)
                         EXCEPT !.available =
                           ~\E b \in existing_for_check(room_id) :
                               overlaps(start_time, end_time, b.start_time, b.end_time)]
    /\ UNCHANGED <<dbVars, cbVars, pending>>

\* ---------------------------------------------------------------------
\* Time passes while the breaker is open (opened_at is read in no other
\* state).
\* ---------------------------------------------------------------------
Tick ==
    /\ cb_state = "open"
    /\ elapsed < reset_timeout
    /\ elapsed' = IF elapsed + TickStep < reset_timeout
                    THEN elapsed + TickStep ELSE reset_timeout
    /\ last' = Exchange("tick", 0, 0, 0, 0, 0, FALSE, 0)
    /\ UNCHANGED <<dbVars, cb_state, fail_counter, pending>>

\* ---------------------------------------------------------------------
\* Specification
\* ---------------------------------------------------------------------
Init ==
    /\ role = RoleOf
    /\ profile = InitialProfile
    /\ rooms = {1}
    /\ room_fields = InitialRooms
    /\ bookings = {}
    /\ reviews = {}
    /\ cb_state = "closed"
    /\ fail_counter = 0
    /\ elapsed = 0
    /\ pending = [c \in Clients |-> Idle]
    /\ last = Exchange("none", 0, 0, 0, 0, 0, FALSE, 0)

\* The requests of a run: any user, any room id, any booking id.  With the
\* downstream healthy nobody passes force_fail and the intervals range over
\* Slots; with force_fail in play the intervals range over OneSlot.
OneSlot == {<<0, 1>>}

Create == \E u \in Users, r \in RoomIds, sl \in OneSlot, ff \in BOOLEAN :
              create_booking(u, r, sl[1], sl[2], ff) /\ UNCHANGED pending
Update == \E id \in BookingIds, u \in Users, r \in RoomIds, sl \in OneSlot :
              update_booking(id, u, r, sl[1], sl[2])
Cancel == \E id \in BookingIds, u \in Users : cancel_booking(id, u)

Next == Create \/ Update \/ Cancel \/ Tick

Spec == Init /\ [][Next]_vars

\* The downstream is healthy: force_fail is left at its default.
CreateHealthy == \E u \in Users, r \in RoomIds, sl \in Slots :
                     create_booking(u, r, sl[1], sl[2], FALSE) /\ UNCHANGED pending
UpdateHealthy == \E id \in BookingIds, u \in Users, r \in RoomIds, sl \in Slots :
                     update_booking(id, u, r, sl[1], sl[2])

List == \E u \in Users : list_bookings(u)
Check == \E r \in RoomIds, sl \in Slots : check_room_availability(r, sl[1], sl[2])

NextHealthy == CreateHealthy \/ UpdateHealthy \/ Cancel \/ List \/ Check

SpecHealthy == Init /\ [][NextHealthy]_vars

\* As SpecHealthy, with only non-admin users making requests.
NonAdmins == {u \in Users : RoleOf[u] # "admin"}

CreateNonAdmin == \E u \in NonAdmins, r \in RoomIds, sl \in Slots :
                      create_booking(u, r, sl[1], sl[2], FALSE) /\ UNCHANGED pending
UpdateNonAdmin == \E id \in BookingIds, u \in NonAdmins, r \in RoomIds, sl \in Slots :
                      update_booking(id, u, r, sl[1], sl[2])
CancelNonAdmin == \E id \in BookingIds, u \in NonAdmins : cancel_booking(id, u)

NextNonAdmin == CreateNonAdmin \/ UpdateNonAdmin \/ CancelNonAdmin

SpecNonAdmin == Init /\ [][NextNonAdmin]_vars

\* Requests whose start_time and end_time are any two timestamps:
\* schemas.BookingBase declares two datetime fields and no validator, so a
\* body with end_time at or before start_time reaches the handlers.  The
\* admin and the regular user ask for room 1.
CreateAnyTimes == \E u \in {1, 2}, s \in Times, e \in Times :
                      create_booking(u, 1, s, e, FALSE) /\ UNCHANGED pending
UpdateAnyTimes == \E id \in BookingIds, u \in {1, 2}, s \in Times, e \in Times :
                      update_booking(id, u, 1, s, e)

NextAnyTimes == CreateAnyTimes \/ UpdateAnyTimes

SpecAnyTimes == Init /\ [][NextAnyTimes]_vars

\* Two clients, each sending one create as a non-admin user.
ReceiveCreate == \E c \in Clients, u \in NonAdmins, r \in RoomIds, sl \in Slots :
                     receive_create(c, u, r, sl[1], sl[2], FALSE)
RespondCreate == \E c \in Clients : respond_create(c)

NextConcurrent == ReceiveCreate \/ RespondCreate

SpecConcurrent == Init /\ [][NextConcurrent]_vars

\* The non-admin users book room 1 for one of two adjacent intervals; then
\* two clients each send one update, as a non-admin user, that moves a
\* booking to room 2 and one of these intervals.
TwoSlots == {<<0, 1>>, <<1, 2>>}

CreateInRoomOne == \E u \in NonAdmins, sl \in TwoSlots :
                       create_booking(u, 1, sl[1], sl[2], FALSE) /\ UNCHANGED pending
ScanUpdate == \E c \in Clients, id \in BookingIds, u \in NonAdmins, sl \in TwoSlots :
                  update_scan(c, id, u, 2, sl[1], sl[2])
CommitUpdate == \E c \in Clients : update_commit(c)

NextConcurrentUpdate == CreateInRoomOne \/ ScanUpdate \/ CommitUpdate

SpecConcurrentUpdate == Init /\ [][NextConcurrentUpdate]_vars

\* Two clients sending creates again and again, failing or not, as the
\* regular user for room 1 and the interval of OneSlot, while the clock
\* of the breaker runs.
ReceiveAnyCreate == \E c \in Clients, ff \in BOOLEAN :
                        receive_create(c, 2, 1, 0, 1, ff)
CompleteCreate == \E c \in Clients : complete_create(c)

NextConcurrentBreaker ==
    ReceiveAnyCreate \/ RespondCreate \/ CompleteCreate \/ Tick

SpecConcurrentBreaker == Init /\ [][NextConcurrentBreaker]_vars

\* ---------------------------------------------------------------------
\* The review router (src/app/routers/reviews.py)
\* ---------------------------------------------------------------------
Review(id, user_id, room_id, rating, comment, flagged, deleted) ==
    [id |-> id, user_id |-> user_id, room_id |-> room_id, rating |-> rating,
     comment |-> comment, flagged |-> flagged, deleted |-> deleted]

\* A served review request: operation, authenticated user (0 if the route
\* takes none), review id (of the path, or of the row created; 0 if none),
\* room id (of the body or of the path; 0 if none), the body's fields as
\* supplied, the status code, and the rows of a listing.
ReviewExchange(op, actor, id, room_id, data, status) ==
    [op |-> op, actor |-> actor, id |-> id, room_id |-> room_id,
     data |-> data, status |-> status, listed |-> {}]

\* models.Review.id, allocated like models.Booking.id.
FreshReviewIds == {i \in ReviewIds : \A r \in reviews : i > r.id}

\* The bodies of PATCH /reviews/{id} after dict(exclude_unset=True): any
\* subset of the fields rating and comment, each with a value.
UpdateBodies ==
    {[f \in S |-> IF f = "rating" THEN r ELSE c] :
        S \in SUBSET {"rating", "comment"}, r \in Ratings, c \in Comments}

\* The bodies of POST /reviews/ apart from room_id.
CreateBodies == [rating : Ratings, comment : Comments]

\* create_review without the lookup of the room.
create_review_skips_room_lookup(u, room_id, data) ==
    \E id \in FreshReviewIds :
      /\ reviews' = reviews \cup
            {Review(id, u, room_id, data.rating, data.comment, FALSE, FALSE)}
      /\ last' = ReviewExchange("create_review", u, id, room_id, data, 200)
      /\ UNCHANGED <<userVars, roomVars, bookings, cbVars, pending>>

\* POST /reviews/
create_review(u, room_id, data) ==
    IF room_id \notin rooms
      THEN /\ last' = ReviewExchange("create_review", u, 0, room_id, data, 404)
           /\ UNCHANGED <<dbVars, cbVars, pending>>
      ELSE \E id \in FreshReviewIds :
             /\ reviews' = reviews \cup
                   {Review(id, u, room_id, data.rating, data.comment, FALSE, FALSE)}
             /\ last' = ReviewExchange("create_review", u, id, room_id, data, 200)
             /\ UNCHANGED <<userVars, roomVars, bookings, cbVars, pending>>

\* get_reviews_for_room filtering out flagged reviews as well.
get_reviews_for_room_hides_flagged(room_id) ==
    /\ last' = [ReviewExchange("list_reviews", 0, 0, room_id, <<>>, 200) EXCEPT
                  !.listed = {r \in reviews : /\ r.room_id = room_id
                                               /\ ~r.deleted /\ ~r.flagged}]
    /\ UNCHANGED <<dbVars, cbVars, pending>>

\* GET /reviews/room/{room_id}
get_reviews_for_room(room_id) ==
    /\ last' = [ReviewExchange("list_reviews", 0, 0, room_id, <<>>, 200) EXCEPT
                  !.listed = {r \in reviews : r.room_id = room_id /\ ~r.deleted}]
    /\ UNCHANGED <<dbVars, cbVars, pending>>

\* The loop of setattr run over both fields, an unset comment written as
\* None.
apply_update_resets_comment(review, data) ==
    [review EXCEPT
       !.rating = IF "rating" \in DOMAIN data THEN data.rating ELSE @,
       !.comment = IF "comment" \in DOMAIN data THEN data.comment ELSE "None"]

\* The row after the loop of setattr over the supplied fields.
apply_update(review, data) ==
    [review EXCEPT
       !.rating = IF "rating" \in DOMAIN data THEN data.rating ELSE @,
       !.comment = IF "comment" \in DOMAIN data THEN data.comment ELSE @]

\* update_review with the author check made before the deleted check.
update_review_checks_author_first(review_id, u, data) ==
    LET found == {r \in reviews : r.id = review_id}
        Answer(st) == /\ last' = ReviewExchange("update_review", u, review_id, 0, data, st)
                      /\ UNCHANGED <<dbVars, cbVars, pending>>
    IN  IF found = {} THEN Answer(404)
        ELSE LET review == CHOOSE r \in found : TRUE IN
          IF review.user_id # u /\ role[u] # "admin" THEN Answer(403)
          ELSE IF review.deleted THEN Answer(400)
          ELSE /\ reviews' = (reviews \ {review}) \cup {apply_update(review, data)}
               /\ last' = ReviewExchange("update_review", u, review_id, 0, data, 200)
               /\ UNCHANGED <<userVars, roomVars, bookings, cbVars, pending>>

\* PATCH /reviews/{review_id}
update_review(review_id, u, data) ==
    LET found == {r \in reviews : r.id = review_id}
        Answer(st) == /\ last' = ReviewExchange("update_review", u, review_id, 0, data, st)
                      /\ UNCHANGED <<dbVars, cbVars, pending>>
    IN  IF found = {} THEN Answer(404)
        ELSE LET review == CHOOSE r \in found : TRUE IN
          IF review.deleted THEN Answer(400)
          ELSE IF review.user_id # u /\ role[u] # "admin" THEN Answer(403)
          ELSE /\ reviews' = (reviews \ {review}) \cup {apply_update(review, data)}
               /\ last' = ReviewExchange("update_review", u, review_id, 0, data, 200)
               /\ UNCHANGED <<userVars, roomVars, bookings, cbVars, pending>>

\* delete_review open to the author only.
delete_review_author_only(review_id, u) ==
    LET found == {r \in reviews : r.id = review_id}
        Answer(st) == /\ last' = ReviewExchange("delete_review", u, review_id, 0, <<>>, st)
                      /\ UNCHANGED <<dbVars, cbVars, pending>>
    IN  IF found = {} THEN Answer(404)
        ELSE LET review == CHOOSE r \in found : TRUE IN
          IF review.user_id # u THEN Answer(403)
          ELSE /\ reviews' = (reviews \ {review}) \cup {[review EXCEPT !.deleted = TRUE]}
               /\ last' = ReviewExchange("delete_review", u, review_id, 0, <<>>, 200)
               /\ UNCHANGED <<userVars, roomVars, bookings, cbVars, pending>>

\* delete_review with the deleted guard of update_review: a review that is
\* already deleted answers 400.
delete_review_rejects_deleted(review_id, u) ==
    LET found == {r \in reviews : r.id = review_id}
        Answer(st) == /\ last' = ReviewExchange("delete_review", u, review_id, 0, <<>>, st)
                      /\ UNCHANGED <<dbVars, cbVars, pending>>
    IN  IF found = {} THEN Answer(404)
        ELSE LET review == CHOOSE r \in found : TRUE IN
          IF review.deleted THEN Answer(400)
          ELSE IF review.user_id # u /\ role[u] # "admin" THEN Answer(403)
          ELSE /\ reviews' = (reviews \ {review}) \cup {[review EXCEPT !.deleted = TRUE]}
               /\ last' = ReviewExchange("delete_review", u, review_id, 0, <<>>, 200)
               /\ UNCHANGED <<userVars, roomVars, bookings, cbVars, pending>>

\* DELETE /reviews/{review_id}: the soft delete.
delete_review(review_id, u) ==
    LET found == {r \in reviews : r.id = review_id}
        Answer(st) == /\ last' = ReviewExchange("delete_review", u, review_id, 0, <<>>, st)
                      /\ UNCHANGED <<dbVars, cbVars, pending>>
    IN  IF found = {} THEN Answer(404)
        ELSE LET review == CHOOSE r \in found : TRUE IN
          IF review.user_id # u /\ role[u] # "admin" THEN Answer(403)
          ELSE /\ reviews' = (reviews \ {review}) \cup {[review EXCEPT !.deleted = TRUE]}
               /\ last' = ReviewExchange("delete_review", u, review_id, 0, <<>>, 200)
               /\ UNCHANGED <<userVars, roomVars, bookings, cbVars, pending>>

\* The admin-only routes open to the review's author as well.
moderate_author_allowed(op, review_id, u, field, value) ==
    LET found == {r \in reviews : r.id = review_id}
        Answer(st) == /\ last' = ReviewExchange(op, u, review_id, 0, <<>>, st)
                      /\ UNCHANGED <<dbVars, cbVars, pending>>
    IN  IF found = {} THEN Answer(IF role[u] # "admin" THEN 403 ELSE 404)
        ELSE LET review == CHOOSE r \in found : TRUE IN
          IF role[u] # "admin" /\ review.user_id # u THEN Answer(403)
          ELSE /\ reviews' = (reviews \ {review}) \cup {[review EXCEPT ![field] = value]}
               /\ last' = ReviewExchange(op, u, review_id, 0, <<>>, 200)
               /\ UNCHANGED <<userVars, roomVars, bookings, cbVars, pending>>

\* The admin-only routes deciding on the role claim of the caller's token,
\* which is the role the caller had at login.
moderate_by_token_role(op, review_id, u, field, value) ==
    LET found == {r \in reviews : r.id = review_id}
        Answer(st) == /\ last' = ReviewExchange(op, u, review_id, 0, <<>>, st)
                      /\ UNCHANGED <<dbVars, cbVars, pending>>
    IN  IF RoleOf[u] # "admin" THEN Answer(403)
        ELSE IF found = {} THEN Answer(404)
        ELSE LET review == CHOOSE r \in found : TRUE IN
               /\ reviews' = (reviews \ {review}) \cup {[review EXCEPT ![field] = value]}
               /\ last' = ReviewExchange(op, u, review_id, 0, <<>>, 200)
               /\ UNCHANGED <<userVars, roomVars, bookings, cbVars, pending>>

\* The three admin-only routes: require_roles("admin") answers 403 before
\* the handler runs; the handler answers 404 for a missing review and
\* otherwise assigns one flag of the row.
moderate(op, review_id, u, field, value) ==
    LET found == {r \in reviews : r.id = review_id}
        Answer(st) == /\ last' = ReviewExchange(op, u, review_id, 0, <<>>, st)
                      /\ UNCHANGED <<dbVars, cbVars, pending>>
    IN  IF role[u] # "admin" THEN Answer(403)
        ELSE IF found = {} THEN Answer(404)
        ELSE LET review == CHOOSE r \in found : TRUE IN
               /\ reviews' = (reviews \ {review}) \cup {[review EXCEPT ![field] = value]}
               /\ last' = ReviewExchange(op, u, review_id, 0, <<>>, 200)
               /\ UNCHANGED <<userVars, roomVars, bookings, cbVars, pending>>

\* restore_review clearing the flagged mark together with deleted.
restore_review_clears_flag(review_id, u) ==
    LET found == {r \in reviews : r.id = review_id}
        Answer(st) == /\ last' = ReviewExchange("restore_review", u, review_id, 0, <<>>, st)
                      /\ UNCHANGED <<dbVars, cbVars, pending>>
    IN  IF role[u] # "admin" THEN Answer(403)
        ELSE IF found = {} THEN Answer(404)
        ELSE LET review == CHOOSE r \in found : TRUE IN
               /\ reviews' = (reviews \ {review}) \cup
                     {[review EXCEPT !.deleted = FALSE, !.flagged = FALSE]}
               /\ last' = ReviewExchange("restore_review", u, review_id, 0, <<>>, 200)
               /\ UNCHANGED <<userVars, roomVars, bookings, cbVars, pending>>

\* POST /reviews/{review_id}/restore
restore_review(review_id, u) ==
    moderate("restore_review", review_id, u, "deleted", FALSE)

\* flag_review with the deleted guard of update_review: a deleted review
\* cannot be flagged.
flag_review_rejects_deleted(review_id, u) ==
    IF role[u] = "admin" /\ \E r \in reviews : r.id = review_id /\ r.deleted
      THEN /\ last' = ReviewExchange("flag_review", u, review_id, 0, <<>>, 400)
           /\ UNCHANGED <<dbVars, cbVars, pending>>
      ELSE moderate("flag_review", review_id, u, "flagged", TRUE)

\* POST /reviews/{review_id}/flag
flag_review(review_id, u) ==
    moderate("flag_review", review_id, u, "flagged", TRUE)

\* POST /reviews/{review_id}/unflag
unflag_review(review_id, u) ==
    moderate("unflag_review", review_id, u, "flagged", FALSE)

CreateReview == \E u \in Users, r \in RoomIds, data \in CreateBodies :
                    create_review(u, r, data)
ListReviews == \E r \in RoomIds : get_reviews_for_room(r)
UpdateReview == \E id \in ReviewIds, u \in Users, data \in UpdateBodies :
                    update_review(id, u, data)
DeleteReview == \E id \in ReviewIds, u \in Users : delete_review(id, u)
RestoreReview == \E id \in ReviewIds, u \in Users : restore_review(id, u)
FlagReview == \E id \in ReviewIds, u \in Users : flag_review(id, u)
UnflagReview == \E id \in ReviewIds, u \in Users : unflag_review(id, u)

NextReviews ==
    \/ CreateReview \/ ListReviews \/ UpdateReview \/ DeleteReview
    \/ RestoreReview \/ FlagReview \/ UnflagReview

SpecReviews == Init /\ [][NextReviews]_vars

\* The booking routes and the review routes served side by side while
\* creates fail, the breaker opens and its timeout runs.  The admin and the
\* regular user make the requests; the regular user creates the bookings,
\* for room 1 and the interval of OneSlot; reviews are created with a text
\* and updated in their rating.
RouteUsers == {u \in Users : RoleOf[u] \in {"admin", "regular"}}
RouteCreateBodies == {data \in CreateBodies : data.comment = "good"}
RouteUpdateBodies == {data \in UpdateBodies : DOMAIN data = {"rating"}}

RoutesCreate == \E u \in RouteUsers \ {1}, ff \in BOOLEAN :
                    create_booking(u, 1, 0, 1, ff) /\ UNCHANGED pending
RoutesUpdate == \E id \in BookingIds, u \in RouteUsers, r \in RoomIds :
                    update_booking(id, u, r, 0, 1)
RoutesCancel == \E id \in BookingIds, u \in RouteUsers : cancel_booking(id, u)
RoutesCheck == \E r \in RoomIds : check_room_availability(r, 0, 1)
RoutesCreateReview == \E u \in RouteUsers, r \in RoomIds, data \in RouteCreateBodies :
                          create_review(u, r, data)
RoutesUpdateReview == \E id \in ReviewIds, u \in RouteUsers, data \in RouteUpdateBodies :
                          update_review(id, u, data)
RoutesDeleteReview == \E id \in ReviewIds, u \in RouteUsers : delete_review(id, u)
RoutesRestoreReview == \E id \in ReviewIds, u \in RouteUsers : restore_review(id, u)
RoutesFlagReview == \E id \in ReviewIds, u \in RouteUsers : flag_review(id, u)
RoutesUnflagReview == \E id \in ReviewIds, u \in RouteUsers : unflag_review(id, u)

NextRoutes ==
    \/ RoutesCreate \/ Tick
    \/ RoutesUpdate \/ RoutesCancel \/ RoutesCheck
    \/ RoutesCreateReview \/ ListReviews \/ RoutesUpdateReview \/ RoutesDeleteReview
    \/ RoutesRestoreReview \/ RoutesFlagReview \/ RoutesUnflagReview

SpecRoutes == Init /\ [][NextRoutes]_vars

\* ---------------------------------------------------------------------
\* The user router (src/app/routers/users.py): the two profile updates
\* ---------------------------------------------------------------------
\* A served profile update: operation, authenticated user, the user named
\* in the path (the actor for /me; 0 for a username nobody has), the
\* body's fields as supplied, and the status code.
UserExchange(op, actor, target, data, status) ==
    [op |-> op, actor |-> actor, target |-> target, data |-> data,
     status |-> status]

\* The bodies of PATCH /users/me and PATCH /users/{username} after
\* dict(exclude_unset=True): any subset of name, email and role.
UserBodies ==
    {[f \in S |-> IF f = "name" THEN n ELSE IF f = "email" THEN e ELSE r] :
        S \in SUBSET {"name", "email", "role"},
        n \in NewNames, e \in NewEmails, r \in NewRoles}

\* users.email is unique: the commit fails when the address asked for is
\* another user's.
email_taken(target, data) ==
    /\ "email" \in DOMAIN data
    /\ \E v \in Users : v # target /\ profile[v].email = data.email

\* The loop of setattr over the supplied fields and the commit.  A commit
\* that fails raises IntegrityError, which the handler for Exception of
\* error_handlers.py turns into 500; nothing is written.
save_user(op, u, target, data) ==
    IF email_taken(target, data)
      THEN /\ last' = UserExchange(op, u, target, data, 500)
           /\ UNCHANGED <<dbVars, cbVars, pending>>
      ELSE /\ role' = [role EXCEPT ![target] =
                          IF "role" \in DOMAIN data THEN data.role ELSE @]
           /\ profile' = [profile EXCEPT
                 ![target].name = IF "name" \in DOMAIN data THEN data.name ELSE @,
                 ![target].email = IF "email" \in DOMAIN data THEN data.email ELSE @]
           /\ last' = UserExchange(op, u, target, data, 200)
           /\ UNCHANGED <<roomVars, bookings, reviews, cbVars, pending>>

\* update_current_user without the test on role.
update_current_user_unchecked(u, data) ==
    save_user("update_current_user", u, u, data)

\* PATCH /users/me
update_current_user(u, data) ==
    IF "role" \in DOMAIN data /\ role[u] # "admin"
      THEN /\ last' = UserExchange("update_current_user", u, u, data, 403)
           /\ UNCHANGED <<dbVars, cbVars, pending>>
      ELSE save_user("update_current_user", u, u, data)

\* PATCH /users/{username}
update_user(target, u, data) ==
    LET Answer(st) == /\ last' = UserExchange("update_user", u, target, data, st)
                      /\ UNCHANGED <<dbVars, cbVars, pending>>
    IN  IF target \notin Users THEN Answer(404)
        ELSE IF role[u] # "admin" /\ u # target THEN Answer(403)
        ELSE IF "role" \in DOMAIN data /\ role[u] # "admin" THEN Answer(403)
        ELSE save_user("update_user", u, target, data)

\* The profile updates of a run are made by the admin and by the regular
\* user, on each other, on themselves and on a username nobody has.
ProfileActors == {u \in Users : RoleOf[u] \in {"admin", "regular"}}

UpdateCurrentUser == \E u \in ProfileActors, data \in UserBodies :
                         update_current_user(u, data)
UpdateUser == \E target \in ProfileActors \cup {0}, u \in ProfileActors,
                 data \in UserBodies :
                  update_user(target, u, data)

NextUsers == UpdateCurrentUser \/ UpdateUser

SpecUsers == Init /\ [][NextUsers]_vars

\* Roles change while the other routes are served.  Every user logged in
\* before the run, so the role claim of a user's token is the user's
\* role in RoleOf.  The admin and the regular user change each other's and
\* their own role, book room 1 for the interval of OneSlot, review room 1,
\* and use the routes that test the caller's role.
RoleBodies == {data \in UserBodies : DOMAIN data = {"role"}}
RoleReviewBodies == {data \in CreateBodies : data.rating = 1 /\ data.comment = "good"}

ChangeOwnRole == \E u \in ProfileActors, data \in RoleBodies :
                     update_current_user(u, data)
ChangeRole == \E target \in ProfileActors, u \in ProfileActors, data \in RoleBodies :
                  update_user(target, u, data)
RoleCreate == \E u \in ProfileActors :
                  create_booking(u, 1, 0, 1, FALSE) /\ UNCHANGED pending
RoleUpdate == \E id \in BookingIds, u \in ProfileActors : update_booking(id, u, 1, 0, 1)
RoleList == \E u \in ProfileActors : list_bookings(u)
RoleCreateReview == \E u \in ProfileActors, data \in RoleReviewBodies :
                        create_review(u, 1, data)

NextRoleChange ==
    \/ ChangeOwnRole \/ ChangeRole
    \/ RoleCreate \/ RoleUpdate \/ RoutesCancel \/ RoleList
    \/ RoleCreateReview \/ RoutesDeleteReview
    \/ RoutesRestoreReview \/ RoutesFlagReview \/ RoutesUnflagReview

SpecRoleChange == Init /\ [][NextRoleChange]_vars

\* ---------------------------------------------------------------------
\* The room router (src/app/routers/rooms.py)
\* ---------------------------------------------------------------------
RoomNames == {"A", "B"}
Capacities == 1..MaxCapacity

\* A served room request: operation, authenticated user, room id (of the
\* path, or of the row created; 0 if none), the body's fields as supplied,
\* and the status code.
RoomExchange(op, actor, id, data, status) ==
    [op |-> op, actor |-> actor, id |-> id, data |-> data, status |-> status]

\* The bodies of POST /rooms/ and, after dict(exclude_unset=True), of
\* PATCH /rooms/{room_id}: RoomUpdate has no field name.
RoomCreateBodies == [name : RoomNames, capacity : Capacities, is_available : BOOLEAN]
RoomUpdateBodies ==
    {[f \in S |-> IF f = "capacity" THEN c ELSE a] :
        S \in SUBSET {"capacity", "is_available"}, c \in Capacities, a \in BOOLEAN}

\* models.Room.id, allocated like models.Booking.id.
FreshRoomIds == {i \in RoomIds : \A r \in rooms : i > r}

\* require_roles letting every authenticated user through.
require_room_roles_any_user(u) == TRUE

\* require_roles("admin", "facility_manager"), the dependency of the three
\* writing routes: it answers 403 before the handler runs.
require_room_roles(u) == role[u] \in {"admin", "facility_manager"}

\* create_room without the lookup of the name.
create_room_skips_name_lookup(u, data) ==
    IF ~require_room_roles(u)
      THEN /\ last' = RoomExchange("create_room", u, 0, data, 403)
           /\ UNCHANGED <<dbVars, cbVars, pending>>
      ELSE \E id \in FreshRoomIds :
             /\ rooms' = rooms \cup {id}
             /\ room_fields' = [r \in rooms \cup {id} |->
                                  IF r = id THEN data ELSE room_fields[r]]
             /\ last' = RoomExchange("create_room", u, id, data, 200)
             /\ UNCHANGED <<userVars, bookings, reviews, cbVars, pending>>

\* POST /rooms/
create_room(u, data) ==
    LET Answer(st) == /\ last' = RoomExchange("create_room", u, 0, data, st)
                      /\ UNCHANGED <<dbVars, cbVars, pending>>
    IN  IF ~require_room_roles(u) THEN Answer(403)
        ELSE IF \E r \in rooms : room_fields[r].name = data.name THEN Answer(400)
        ELSE \E id \in FreshRoomIds :
               /\ rooms' = rooms \cup {id}
               /\ room_fields' = [r \in rooms \cup {id} |->
                                    IF r = id THEN data ELSE room_fields[r]]
               /\ last' = RoomExchange("create_room", u, id, data, 200)
               /\ UNCHANGED <<userVars, bookings, reviews, cbVars, pending>>

\* PATCH /rooms/{room_id}
update_room(room_id, u, data) ==
    LET Answer(st) == /\ last' = RoomExchange("update_room", u, room_id, data, st)
                      /\ UNCHANGED <<dbVars, cbVars, pending>>
    IN  IF ~require_room_roles(u) THEN Answer(403)
        ELSE IF room_id \notin rooms THEN Answer(404)
        ELSE /\ room_fields' = [room_fields EXCEPT
                   ![room_id].capacity =
                       IF "capacity" \in DOMAIN data THEN data.capacity ELSE @,
                   ![room_id].is_available =
                       IF "is_available" \in DOMAIN data THEN data.is_available ELSE @]
             /\ last' = RoomExchange("update_room", u, room_id, data, 200)
             /\ UNCHANGED <<userVars, rooms, bookings, reviews, cbVars, pending>>

\* DELETE /rooms/{room_id}.  Room.bookings and Room.reviews are plain
\* relationships: deleting a room that has bookings or reviews makes the
\* session set their room_id to NULL, which the NOT NULL columns refuse, so
\* that the commit fails (500) and nothing is written.
delete_room(room_id, u) ==
    LET Answer(st) == /\ last' = RoomExchange("delete_room", u, room_id, <<>>, st)
                      /\ UNCHANGED <<dbVars, cbVars, pending>>
    IN  IF ~require_room_roles(u) THEN Answer(403)
        ELSE IF room_id \notin rooms THEN Answer(404)
        ELSE IF \/ \E b \in bookings : b.room_id = room_id
                \/ \E r \in reviews : r.room_id = room_id
          THEN Answer(500)
          ELSE /\ rooms' = rooms \ {room_id}
               /\ room_fields' = [r \in rooms \ {room_id} |-> room_fields[r]]
               /\ last' = RoomExchange("delete_room", u, room_id, <<>>, 200)
               /\ UNCHANGED <<userVars, bookings, reviews, cbVars, pending>>

CreateRoom == \E u \in Users, data \in RoomCreateBodies : create_room(u, data)
UpdateRoom == \E id \in RoomIds, u \in Users, data \in RoomUpdateBodies :
                  update_room(id, u, data)
DeleteRoom == \E id \in RoomIds, u \in Users : delete_room(id, u)

NextRooms == CreateRoom \/ UpdateRoom \/ DeleteRoom

SpecRooms == Init /\ [][NextRooms]_vars

\* overlaps called on its own, on any four timestamps in either order of
\* the two intervals: nothing in the function or in its callers orders
\* start and end.
Stamps == 0..MaxStamp

CallOverlaps ==
    \E start1 \in Stamps, end1 \in Stamps, start2 \in Stamps, end2 \in Stamps :
        /\ last' = [op |-> "overlaps",
                    start1 |-> start1, end1 |-> end1,
                    start2 |-> start2, end2 |-> end2,
                    result |-> overlaps(start1, end1, start2, end2),
                    swapped |-> overlaps(start2, end2, start1, end1)]
        /\ UNCHANGED <<dbVars, cbVars, pending>>

SpecOverlaps == Init /\ [][CallOverlaps]_vars

\* ---------------------------------------------------------------------
\* Properties
\* ---------------------------------------------------------------------

\* C1: when only non-admin users create, update and cancel bookings, no
\* two distinct bookings of the same room have overlapping half-open
\* intervals.  (Stated under SpecNonAdmin, which starts with no bookings.)
C1_NoDoubleBooking ==
    \A a \in bookings, b \in bookings :
        (a.id # b.id /\ a.room_id = b.room_id)
            => ~(a.start_time < b.end_time /\ b.start_time < a.end_time)

\* C2: a create by a non-admin for [t1,t2) on room R answers 400 (Conflict)
\* and persists nothing when an existing booking of R overlaps [t1,t2); it
\* answers 200 and persists the booking when none does.
C2_NonAdminCreateConflict ==
    (last.op = "create" /\ role[last.actor] # "admin")
        => LET clash == \E b \in bookings :
                            /\ b.id # last.id
                            /\ b.room_id = last.room_id
                            /\ last.start_time < b.end_time
                            /\ b.start_time < last.end_time
           IN  IF clash
                 THEN last.status = 400 /\ last.id = 0
                 ELSE /\ last.status = 200
                      /\ Booking(last.id, last.actor, last.room_id,
                                 last.start_time, last.end_time) \in bookings

\* C3: a create for a room id that is not in table rooms answers 404 for
\* every role and adds no booking.
C3_CreateMissingRoomNotFound ==
    (last.op = "create" /\ last.room_id \notin rooms)
        => (last.status = 404 /\ last.id = 0)

\* C4: a create by an admin for an existing room, which the breaker lets
\* through and whose commit does not fail, answers 200 and adds exactly the
\* requested booking, however many bookings of the room overlap it.
C4_AdminCreateOverrides ==
    [][ ( /\ last'.op = "create"
          /\ role[last'.actor] = "admin"
          /\ last'.room_id \in rooms
          /\ ~last'.force_fail
          /\ ~(cb_state = "open" /\ elapsed < reset_timeout) )
        => ( /\ last'.status = 200
             /\ \A b \in bookings : b.id # last'.id
             /\ bookings' = bookings \cup
                   {Booking(last'.id, last'.actor, last'.room_id,
                            last'.start_time, last'.end_time)} ) ]_vars

\* An admin has just booked a room over an existing booking of that room.
C4_Witness ==
    /\ last.op = "create" /\ last.status = 200
    /\ role[last.actor] = "admin"
    /\ last.room_id \in rooms
    /\ \E b \in bookings :
          /\ b.id # last.id
          /\ b.room_id = last.room_id
          /\ last.start_time < b.end_time /\ b.start_time < last.end_time

\* C5: from a closed breaker each failed commit adds one to the count of
\* consecutive failures and each successful one resets it; the failure
\* that makes three opens the breaker and fewer leave it closed; a create
\* made less than 60 seconds after the breaker opened answers 503.
C5_ThreeFailuresOpen ==
    [][ /\ (cb_state = "closed" /\ last'.op = "create" /\ last'.force_fail)
            => /\ fail_counter' = fail_counter + 1
               /\ cb_state' = IF fail_counter + 1 >= 3 THEN "open" ELSE "closed"
        /\ (cb_state = "closed" /\ last'.op = "create" /\ ~last'.force_fail)
            => (fail_counter' = 0 /\ cb_state' = "closed")
        /\ (cb_state = "open" /\ elapsed < 60 /\ last'.op = "create")
            => last'.status = 503 ]_vars

\* The breaker opened on the third failure and a create made within the
\* 60 seconds that follow has been answered 503.
C5_Witness ==
    /\ cb_state = "open" /\ fail_counter = 3
    /\ 0 < elapsed /\ elapsed < 60
    /\ last.op = "create" /\ last.status = 503

\* C6: while the breaker is open and its 60 seconds have not elapsed, every
\* create, force_fail or not, answers 503 without running the commit: no
\* booking is added and the breaker's state, counter and opening time stay
\* as they were.
C6_OpenRejectsWithoutWrite ==
    [][ (cb_state = "open" /\ elapsed < 60 /\ last'.op = "create")
        => ( /\ last'.status = 503
             /\ last'.id = 0
             /\ bookings' = bookings
             /\ cb_state' = "open"
             /\ fail_counter' = fail_counter
             /\ elapsed' = elapsed ) ]_vars

\* A create that would have succeeded has been rejected by the open
\* breaker.
C6_Witness ==
    /\ cb_state = "open" /\ elapsed < 60
    /\ last.op = "create" /\ ~last.force_fail /\ last.status = 503
    /\ \A b \in bookings : ~(b.user_id = last.actor /\ b.room_id = last.room_id)

\* C7: the first create after the 60 seconds of an open breaker runs the
\* commit as the trial.  If it succeeds the booking is stored and the
\* breaker is closed with its counter at zero; if it fails the breaker is
\* open again with its timeout restarted, so that creates are rejected,
\* not tried, until another 60 seconds have passed.  After the trial the
\* breaker is never left half-open.
C7_HalfOpenTrial ==
    [][ /\ (cb_state = "open" /\ elapsed >= 60 /\ last'.op = "create")
            => IF last'.force_fail
                 THEN /\ cb_state' = "open" /\ elapsed' = 0
                      /\ fail_counter' = fail_counter + 1
                      /\ bookings' = bookings
                 ELSE /\ cb_state' = "closed" /\ fail_counter' = 0
                      /\ last'.status = 200
                      /\ bookings' = bookings \cup
                            {Booking(last'.id, last'.actor, last'.room_id,
                                     last'.start_time, last'.end_time)}
        /\ (cb_state = "open" /\ elapsed < 60 /\ last'.op = "create")
            => (cb_state' = "open" /\ elapsed' = elapsed /\ bookings' = bookings)
        /\ cb_state' # "half-open" ]_vars

\* A half-open trial has failed: the counter stands above fail_max and the
\* timeout has just restarted.
C7_Witness ==
    /\ cb_state = "open" /\ fail_counter = 4 /\ elapsed = 0
    /\ last.op = "create" /\ last.force_fail

C9_SharedBreaker ==
    [][ ( /\ last.op = "create" /\ last.force_fail
          /\ last'.op = "create"
          /\ last'.actor # last.actor
          /\ last'.room_id # last.room_id )
        => /\ (cb_state = "open" /\ elapsed < 60)
                => (last'.status = 503 /\ last'.id = 0 /\ bookings' = bookings)
           /\ (cb_state = "closed" /\ last'.force_fail)
                => fail_counter' = fail_counter + 1 ]_vars

\* User 3, who has no booking and whose request would have succeeded, has
\* been rejected for room 2 by the breaker the failures opened.
C9_Witness ==
    /\ cb_state = "open" /\ fail_counter = 3 /\ elapsed < 60
    /\ last.op = "create" /\ last.status = 503 /\ ~last.force_fail
    /\ last.actor = 3 /\ last.room_id = 2
    /\ \A b \in bookings : b.user_id # 3

\* C10: an update by the booking's non-admin owner answers 400 and leaves
\* the booking as it was when another booking of the requested room
\* overlaps the requested interval; an update by the owner answers 200 and
\* stores exactly the requested room, start and end when none does.
C10_OwnerUpdate ==
    [][ \A b \in bookings :
          (last'.op = "update" /\ last'.id = b.id /\ last'.actor = b.user_id)
          => LET clash == \E o \in bookings :
                              /\ o.id # b.id
                              /\ o.room_id = last'.room_id
                              /\ last'.start_time < o.end_time
                              /\ o.start_time < last'.end_time
             IN  /\ (clash /\ role[b.user_id] # "admin")
                      => (last'.status = 400 /\ bookings' = bookings)
                 /\ ~clash
                      => /\ last'.status = 200
                         /\ bookings' = (bookings \ {b}) \cup
                               {Booking(b.id, b.user_id, last'.room_id,
                                        last'.start_time, last'.end_time)} ]_vars

\* A non-admin owner has been refused a move onto another booking of the
\* requested room.
C10_Witness ==
    /\ last.op = "update" /\ last.status = 400
    /\ \E b \in bookings :
          /\ b.id = last.id /\ b.user_id = last.actor
          /\ role[b.user_id] # "admin"
          /\ \E o \in bookings :
                /\ o.id # b.id /\ o.room_id = last.room_id
                /\ last.start_time < o.end_time /\ o.start_time < last.end_time

\* C11: an update or a cancel of an existing booking is refused with 403
\* exactly when the actor is neither the booking's owner nor an admin (a
\* facility manager who is not the owner included), and a refused request
\* leaves the table of bookings as it was, the booking still in it.
C11_OwnerOrAdminOnly ==
    [][ \A b \in bookings :
          (last'.op \in {"update", "cancel"} /\ last'.id = b.id)
          => IF last'.actor = b.user_id \/ role[last'.actor] = "admin"
               THEN last'.status # 403
               ELSE last'.status = 403 /\ bookings' = bookings ]_vars

\* A facility manager has been refused the cancel of another user's
\* booking, which is still there.
C11_Witness ==
    /\ last.op = "cancel" /\ last.status = 403
    /\ role[last.actor] = "facility_manager"
    /\ \E b \in bookings : b.id = last.id /\ b.user_id # last.actor

\* C12 as claimed: a successful cancel removes the row, and the id it
\* carried is absent for good: the request that follows the cancel,
\* whatever it is, leaves no row under that id.
C12_CancelledIdNeverReturns ==
    [][ /\ (last'.op = "cancel" /\ last'.status = 200)
            => \A b \in bookings' : b.id # last'.id
        /\ (last.op = "cancel" /\ last.status = 200)
            => \A b \in bookings' : b.id # last.id ]_vars

\* C12 as amended: a successful cancel deletes the row, so that its id is
\* absent; while an id is absent every update and cancel of it answers 404
\* and changes nothing, no listing returns a row under it, and only the
\* rows in the table count as conflicts for an availability check or an
\* update; a row appears under an absent id only through a successful
\* create, as the new booking that create was asked for.
C12_CancelRemoves ==
    [][ /\ (last'.op = "cancel" /\ last'.status = 200)
            => /\ \E b \in bookings : b.id = last'.id /\ bookings' = bookings \ {b}
               /\ \A b \in bookings' : b.id # last'.id
        /\ \A id \in BookingIds :
             (\A b \in bookings : b.id # id)
             => /\ (last'.op \in {"update", "cancel"} /\ last'.id = id)
                     => (last'.status = 404 /\ bookings' = bookings)
                /\ (last'.op = "list") => \A b \in last'.listed : b.id # id
                /\ (\E b \in bookings' : b.id = id)
                     => /\ last'.op = "create" /\ last'.status = 200 /\ last'.id = id
                        /\ bookings' = bookings \cup
                              {Booking(id, last'.actor, last'.room_id,
                                       last'.start_time, last'.end_time)}
        /\ (last'.op = "check" /\ last'.status = 200 /\ ~last'.available)
             => \E b \in bookings :
                   /\ b.room_id = last'.room_id
                   /\ last'.start_time < b.end_time /\ b.start_time < last'.end_time
        /\ (last'.op = "update" /\ last'.status = 400)
             => \E b \in bookings :
                   /\ b.id # last'.id /\ b.room_id = last'.room_id
                   /\ last'.start_time < b.end_time /\ b.start_time < last'.end_time
      ]_vars

\* A booking has just been cancelled while another one stays: the
\* cancelled id is absent.
C12_Witness ==
    /\ last.op = "cancel" /\ last.status = 200
    /\ bookings # {}
    /\ \A b \in bookings : b.id # last.id

\* C13: a listing returns every booking to an admin and to a facility
\* manager, and to any other user exactly the bookings whose owner is that
\* user.
C13_ListingScope ==
    (last.op = "list")
        => /\ last.status = 200
           /\ last.listed = IF role[last.actor] \in {"admin", "facility_manager"}
                              THEN bookings
                              ELSE {b \in bookings : b.user_id = last.actor}

\* A facility manager's listing holds another user's booking, and a
\* booking of the manager's own.
C13_Witness ==
    /\ last.op = "list" /\ role[last.actor] = "facility_manager"
    /\ \E b \in last.listed : b.user_id # last.actor
    /\ \E b \in last.listed : b.user_id = last.actor

\* C14: an availability check answers 404 when the room is missing;
\* otherwise it answers 200 with available false exactly when some booking
\* of that room overlaps the interval; in either case users, rooms,
\* bookings, reviews and the breaker are left as they were.
C14_AvailabilityCheck ==
    [][ (last'.op = "check")
        => /\ UNCHANGED <<userVars, roomVars, bookings, reviews, cb_state, fail_counter, elapsed>>
           /\ IF last'.room_id \notin rooms
                THEN last'.status = 404
                ELSE /\ last'.status = 200
                     /\ last'.available =
                          ~\E b \in bookings :
                              /\ b.room_id = last'.room_id
                              /\ last'.start_time < b.end_time
                              /\ b.start_time < last'.end_time ]_vars

\* A check has found the room free although a booking of another room
\* overlaps the interval asked about.
C14_Witness ==
    /\ last.op = "check" /\ last.status = 200 /\ last.available
    /\ \E b \in bookings :
          /\ b.room_id # last.room_id
          /\ last.start_time < b.end_time /\ b.start_time < last.end_time

\* C15: an interval that starts where a booking of the room ends, or ends
\* where one starts, is not in conflict with that booking.  When every
\* other booking of an existing room either touches the requested interval
\* in this way or lies apart from it, a non-admin's create is accepted and
\* stored, the non-admin owner's update is accepted and stored, and the
\* availability check says available.
C15_AdjacentIsFree ==
    [][ LET touches(b) == \/ last'.start_time = b.end_time
                          \/ last'.end_time = b.start_time
            apart(b) == ~(last'.start_time < b.end_time /\ b.start_time < last'.end_time)
            others == {b \in bookings : /\ b.room_id = last'.room_id
                                        /\ ~(last'.op = "update" /\ b.id = last'.id)}
            free == /\ last'.room_id \in rooms
                    /\ \E b \in others : touches(b)
                    /\ \A b \in others : touches(b) \/ apart(b)
        IN  /\ (free /\ last'.op = "create" /\ role[last'.actor] # "admin")
                => /\ last'.status = 200
                   /\ Booking(last'.id, last'.actor, last'.room_id,
                              last'.start_time, last'.end_time) \in bookings'
            /\ (free /\ last'.op = "update" /\ role[last'.actor] # "admin"
                  /\ \E b \in bookings : b.id = last'.id /\ b.user_id = last'.actor)
                => /\ last'.status = 200
                   /\ Booking(last'.id, last'.actor, last'.room_id,
                              last'.start_time, last'.end_time) \in bookings'
            /\ (free /\ last'.op = "check")
                => (last'.status = 200 /\ last'.available) ]_vars

\* A non-admin owner has moved a booking to the interval that starts where
\* another booking of the same room ends.
C15_Witness ==
    /\ last.op = "update" /\ last.status = 200
    /\ role[last.actor] # "admin"
    /\ \E b \in bookings :
          /\ b.id # last.id /\ b.room_id = last.room_id
          /\ b.end_time = last.start_time

\* C16 as claimed: for any four timestamps, ordered or not, overlaps
\* returns true exactly when some instant lies in both [start1, end1) and
\* [start2, end2).
C16_OverlapsIffCommonPoint ==
    (last.op = "overlaps")
        => (last.result <=>
              \E t \in Stamps : /\ last.start1 <= t /\ t < last.end1
                                /\ last.start2 <= t /\ t < last.end2)

\* C16 as amended: when both intervals are non-empty (start before end)
\* overlaps returns true exactly when some instant lies in both; for any
\* four timestamps it returns start1 < end2 and start2 < end1, which is
\* true whenever some instant lies in both, and is also true for some
\* inputs with an empty interval.
C16_OverlapsOnProperIntervals ==
    (last.op = "overlaps")
        => LET common == \E t \in Stamps : /\ last.start1 <= t /\ t < last.end1
                                           /\ last.start2 <= t /\ t < last.end2
           IN  /\ (last.start1 < last.end1 /\ last.start2 < last.end2)
                    => (last.result <=> common)
               /\ common => last.result
               /\ last.result <=> (last.start1 < last.end2 /\ last.start2 < last.end1)

\* overlaps has returned true for an empty first interval lying strictly
\* inside the second.
C16_Witness ==
    /\ last.op = "overlaps" /\ last.result
    /\ last.start1 = last.end1
    /\ last.start2 < last.start1 /\ last.end1 < last.end2

\* C17: overlaps gives the same answer whichever of the two intervals is
\* passed first.
C17_OverlapsSymmetric ==
    (last.op = "overlaps") => (last.result <=> last.swapped)

\* overlaps has been called, in both orders, on two different intervals of
\* which the first starts inside the second and ends after it.
C17_Witness ==
    /\ last.op = "overlaps" /\ last.result /\ last.swapped
    /\ last.start2 < last.start1 /\ last.start1 < last.end2
    /\ last.end2 < last.end1

\* C18: a successful create adds one row whose owner is the authenticated
\* user who made the request; an update, by the owner or by an admin who
\* is not the owner, leaves the ids in the table and the owner of every
\* row as they were.
C18_OwnerIsCreator ==
    [][ /\ (last'.op = "create" /\ last'.status = 200)
            => \E b \in bookings' :
                  /\ b \notin bookings
                  /\ b.id = last'.id /\ b.user_id = last'.actor
                  /\ bookings' = bookings \cup {b}
        /\ (last'.op = "update")
            => /\ {b.id : b \in bookings'} = {b.id : b \in bookings}
               /\ \A b \in bookings, c \in bookings' :
                     (c.id = b.id) => (c.user_id = b.user_id) ]_vars

\* An admin has moved another user's booking to another room: the row
\* holds the request's room and interval, and still its owner.
C18_Witness ==
    /\ last.op = "update" /\ last.status = 200
    /\ role[last.actor] = "admin"
    /\ \E b \in bookings :
          /\ b.id = last.id /\ b.user_id # last.actor
          /\ b.room_id = last.room_id
          /\ b.start_time = last.start_time /\ b.end_time = last.end_time

\* C19: an update of a review whose deleted flag is set answers 400 and
\* leaves the table of reviews as it was, whoever asks: the author, an
\* admin, or a user who is neither and would otherwise be answered 403.
C19_DeletedReviewNotUpdatable ==
    [][ \A r \in reviews :
          (last'.op = "update_review" /\ last'.id = r.id /\ r.deleted)
          => (last'.status = 400 /\ reviews' = reviews) ]_vars

\* A user who is neither the author nor an admin has been answered 400,
\* not 403, for an update of a deleted review.
C19_Witness ==
    /\ last.op = "update_review" /\ last.status = 400
    /\ role[last.actor] # "admin"
    /\ DOMAIN last.data # {}
    /\ \E r \in reviews : r.id = last.id /\ r.deleted /\ r.user_id # last.actor

\* C20: an update of a review that is not deleted, and a soft delete of a
\* review, go through (200) when the actor is the review's author or an
\* admin; for any other actor they answer 403 and leave the table of
\* reviews as it was.
C20_AuthorOrAdminOnly ==
    [][ \A r \in reviews :
          LET allowed == last'.actor = r.user_id \/ role[last'.actor] = "admin"
          IN  /\ (last'.op = "update_review" /\ last'.id = r.id /\ ~r.deleted)
                  => IF allowed
                       THEN last'.status = 200
                       ELSE last'.status = 403 /\ reviews' = reviews
              /\ (last'.op = "delete_review" /\ last'.id = r.id)
                  => IF allowed
                       THEN /\ last'.status = 200
                            /\ reviews' = (reviews \ {r}) \cup {[r EXCEPT !.deleted = TRUE]}
                       ELSE last'.status = 403 /\ reviews' = reviews ]_vars

\* An admin has soft-deleted a review written by somebody else.
C20_Witness ==
    /\ last.op = "delete_review" /\ last.status = 200
    /\ role[last.actor] = "admin"
    /\ \E r \in reviews : r.id = last.id /\ r.deleted /\ r.user_id # last.actor

\* C21: restore, flag and unflag of a review go through only for an admin.
\* Any other actor, the review's author and a facility manager included,
\* is answered 403 and the table of reviews, so every deleted and flagged
\* value, stays as it was; an admin's request on an existing review
\* answers 200.
C21_ModerationAdminOnly ==
    [][ (last'.op \in {"restore_review", "flag_review", "unflag_review"})
        => /\ (role[last'.actor] # "admin")
                => (last'.status = 403 /\ reviews' = reviews)
           /\ (role[last'.actor] = "admin" /\ \E r \in reviews : r.id = last'.id)
                => last'.status = 200 ]_vars

\* The author, who is no admin, has been refused the restore of their own
\* deleted review, which is still deleted.
C21_Witness ==
    /\ last.op = "restore_review" /\ last.status = 403
    /\ \E r \in reviews : r.id = last.id /\ r.user_id = last.actor /\ r.deleted

\* C22: whatever requests came before, the listing of a room returns
\* exactly the reviews of that room that are not deleted: a flagged review
\* that is not deleted is in it, a deleted review is not, flagged or not.
C22_ListingHidesDeletedOnly ==
    (last.op = "list_reviews")
        => /\ last.status = 200
           /\ last.listed = {r \in reviews : r.room_id = last.room_id /\ ~r.deleted}

\* The listing of a room holds a flagged review.
C22_Witness ==
    /\ last.op = "list_reviews"
    /\ \E r \in last.listed : r.flagged /\ r.room_id = last.room_id

\* C23: a soft delete followed by an admin's restore is a round trip.  A
\* successful soft delete changes nothing of the review but deleted, which
\* it sets, so that the review is not among the non-deleted reviews of its
\* room; a successful restore of the review just deleted changes nothing
\* but deleted, which it clears, so that the review is again among them
\* with the id, author, room, rating, comment and flagged value it had.
C23_DeleteRestoreRoundTrip ==
    [][ \A r \in reviews :
          /\ (last'.op = "delete_review" /\ last'.id = r.id /\ last'.status = 200)
               => /\ reviews' = (reviews \ {r}) \cup
                       {Review(r.id, r.user_id, r.room_id, r.rating, r.comment,
                               r.flagged, TRUE)}
                  /\ ~\E x \in reviews' : x.id = r.id /\ ~x.deleted
          /\ ( /\ last.op = "delete_review" /\ last.status = 200 /\ last.id = r.id
               /\ last'.op = "restore_review" /\ last'.id = r.id
               /\ role[last'.actor] = "admin" )
               => /\ last'.status = 200
                  /\ r.deleted
                  /\ reviews' = (reviews \ {r}) \cup
                       {Review(r.id, r.user_id, r.room_id, r.rating, r.comment,
                               r.flagged, FALSE)} ]_vars

\* An admin has restored a flagged review written by somebody else: it is
\* not deleted and still flagged.
C23_Witness ==
    /\ last.op = "restore_review" /\ last.status = 200
    /\ \E r \in reviews :
          /\ r.id = last.id /\ r.user_id # last.actor
          /\ ~r.deleted /\ r.flagged /\ r.comment = "good"

\* C24: a review create for a room that does not exist answers 404 and
\* stores nothing; for an existing room, whatever the actor's role, it
\* answers 200 and adds one review, whose author is the actor, whose room,
\* rating and comment are the request's, and which is neither flagged nor
\* deleted.
C24_ReviewCreate ==
    [][ (last'.op = "create_review")
        => IF last'.room_id \notin rooms
             THEN last'.status = 404 /\ reviews' = reviews
             ELSE /\ last'.status = 200
                  /\ \A r \in reviews : r.id # last'.id
                  /\ reviews' = reviews \cup
                       {Review(last'.id, last'.actor, last'.room_id,
                               last'.data.rating, last'.data.comment,
                               FALSE, FALSE)} ]_vars

\* A facility manager's review has just been stored.
C24_Witness ==
    /\ last.op = "create_review" /\ last.status = 200
    /\ role[last.actor] = "facility_manager"
    /\ \E r \in reviews :
          /\ r.id = last.id /\ r.user_id = last.actor
          /\ ~r.flagged /\ ~r.deleted

\* C25: a successful review update writes the supplied fields among
\* rating and comment and nothing else: a field not supplied keeps its
\* value, and id, author, room, flagged and deleted are as before.
C25_PartialUpdate ==
    [][ \A r \in reviews :
          (last'.op = "update_review" /\ last'.id = r.id /\ last'.status = 200)
          => reviews' = (reviews \ {r}) \cup
               {Review(r.id, r.user_id, r.room_id,
                       IF "rating" \in DOMAIN last'.data
                         THEN last'.data.rating ELSE r.rating,
                       IF "comment" \in DOMAIN last'.data
                         THEN last'.data.comment ELSE r.comment,
                       r.flagged, r.deleted)} ]_vars

\* An update that supplied only a rating has left the comment of a
\* flagged review in place.
C25_Witness ==
    /\ last.op = "update_review" /\ last.status = 200
    /\ DOMAIN last.data = {"rating"}
    /\ \E r \in reviews :
          /\ r.id = last.id /\ r.rating = last.data.rating
          /\ r.comment = "good" /\ r.flagged

\* C26: a profile update changes a role only when the acting user is an
\* admin at that moment.  A non-admin who supplies a role in an update of
\* their own profile, through /users/me or through their own username, is
\* answered 403, and neither the role nor any other supplied field (name,
\* email) is written.
C26_RoleChangeAdminOnly ==
    [][ (last'.op \in {"update_current_user", "update_user"})
        => /\ (role' # role) => role[last'.actor] = "admin"
           /\ ( /\ role[last'.actor] # "admin"
                /\ "role" \in DOMAIN last'.data
                /\ last'.target = last'.actor )
                => (last'.status = 403 /\ role' = role /\ profile' = profile) ]_vars

\* A non-admin who asked through /users/me for the admin role together
\* with a new name and a free address has been answered 403 and still has
\* the old name and address.
C26_Witness ==
    /\ last.op = "update_current_user" /\ last.status = 403
    /\ DOMAIN last.data = {"name", "email", "role"}
    /\ last.data.role = "admin" /\ last.data.email = "e4"
    /\ role[last.actor] = "regular"
    /\ profile[last.actor] = InitialProfile[last.actor]
    /\ \A v \in Users : profile[v].email # "e4"

\* C27: a room create, update or delete is answered 403 exactly when the
\* actor is neither an admin nor a facility manager, and then the set of
\* rooms and the fields of every room are left as they were; so a request
\* that changes the rooms comes from an admin or a facility manager.
C27_RoomWritesByManagersOnly ==
    [][ (last'.op \in {"create_room", "update_room", "delete_room"})
        => IF role[last'.actor] \in {"admin", "facility_manager"}
             THEN last'.status # 403
             ELSE /\ last'.status = 403
                  /\ rooms' = rooms /\ room_fields' = room_fields ]_vars

\* A regular user has been refused the delete of an existing room.
C27_Witness ==
    /\ last.op = "delete_room" /\ last.status = 403
    /\ role[last.actor] = "regular"
    /\ last.id \in rooms

\* C28: no two rooms have the same name, in any state that room creates,
\* updates and deletes lead to; a create by an admin or a facility manager
\* under the name of an existing room answers 400 and adds no room.
C28_RoomNamesUnique ==
    [][ /\ ( /\ last'.op = "create_room"
             /\ role[last'.actor] \in {"admin", "facility_manager"}
             /\ \E r \in rooms : room_fields[r].name = last'.data.name )
             => (last'.status = 400 /\ rooms' = rooms /\ room_fields' = room_fields)
        /\ \A a \in rooms', b \in rooms' :
             (a # b) => room_fields'[a].name # room_fields'[b].name ]_vars

\* A facility manager has been refused a room under a name that is in
\* use.
C28_Witness ==
    /\ last.op = "create_room" /\ last.status = 400
    /\ role[last.actor] = "facility_manager"
    /\ \E r \in rooms : room_fields[r].name = last.data.name

\* ---------------------------------------------------------------------
\* C29: two creates by non-admin users for one room and overlapping
\* intervals, both in the handler at the same time, can both be answered
\* 200 and leave two overlapping bookings of the room.  Nothing serialises
\* the creates of a room: whatever the table holds and whatever request is
\* in flight, the commit of a non-admin's create that the breaker lets
\* through answers 200 and adds exactly the requested row.
\* ---------------------------------------------------------------------
C29_ConcurrentCreatesBothSucceed ==
    [][ \A c \in Clients :
          ( /\ pending[c].pc = "received"
            /\ pending'[c].pc = "responded"
            /\ role[pending[c].actor] # "admin"
            /\ cb_state = "closed" )
          => /\ pending'[c].status = 200
             /\ \E b \in bookings' \ bookings :
                  /\ bookings' = bookings \cup {b}
                  /\ b.id = pending'[c].id
                  /\ b.user_id = pending[c].actor
                  /\ b.room_id = pending[c].room_id
                  /\ b.start_time = pending[c].start_time
                  /\ b.end_time = pending[c].end_time ]_vars

\* Client 2's request was in the handler when client 1's was committed;
\* both were answered 200, and their rows, of one room and with
\* intersecting intervals, are both in the table.
C29_Witness ==
    /\ pending[1].pc = "responded" /\ pending[2].pc = "responded"
    /\ pending[1].status = 200 /\ pending[2].status = 200
    /\ 2 \in pending[1].in_flight
    /\ role[pending[1].actor] # "admin" /\ role[pending[2].actor] # "admin"
    /\ pending[1].room_id = pending[2].room_id
    /\ pending[1].start_time < pending[2].end_time
    /\ pending[2].start_time < pending[1].end_time
    /\ \E a \in bookings, b \in bookings :
         /\ a.id = pending[1].id /\ b.id = pending[2].id /\ a.id # b.id
         /\ a.room_id = b.room_id
         /\ a.start_time < b.end_time /\ b.start_time < a.end_time

\* ---------------------------------------------------------------------
\* C30: with the breaker closed, the availability check of an existing
\* room and interval answers available = true exactly when a create by a
\* non-admin for the same room and interval succeeds.  The create is the
\* request served right after the check, so both see the same table.
\* ---------------------------------------------------------------------
C30_CheckAgreesWithCreate ==
    [][ ( /\ last.op = "check" /\ last.status = 200
          /\ last.room_id \in rooms
          /\ cb_state = "closed"
          /\ last'.op = "create"
          /\ role[last'.actor] # "admin"
          /\ last'.room_id = last.room_id
          /\ last'.start_time = last.start_time
          /\ last'.end_time = last.end_time )
        => (last'.status = 200 <=> last.available) ]_vars

\* ---------------------------------------------------------------------
\* C31: every successful create leaves the breaker closed with its failure
\* counter at zero; a closed breaker opens only on a failure that finds
\* the counter at two, and a failure that finds it below two adds one and
\* leaves the breaker closed.  So failures count only as an uninterrupted
\* run: fail, fail, success, fail, fail ends closed with the counter at
\* two.
\* ---------------------------------------------------------------------
C31_SuccessResetsCounter ==
    [][ /\ (last'.op = "create" /\ last'.status = 200)
            => (fail_counter' = 0 /\ cb_state' = "closed")
        /\ (cb_state = "closed" /\ cb_state' = "open")
            => (fail_counter = 2 /\ last'.op = "create" /\ last'.force_fail)
        /\ (cb_state = "closed" /\ fail_counter < 2
              /\ last'.op = "create" /\ last'.force_fail)
            => (cb_state' = "closed" /\ fail_counter' = fail_counter + 1) ]_vars

\* A create has succeeded, its booking is stored, and the two failures
\* counted since have left the breaker closed.
C31_Witness ==
    /\ cb_state = "closed" /\ fail_counter = 2
    /\ last.op = "create" /\ last.force_fail /\ last.status = 500
    /\ bookings # {}

\* ---------------------------------------------------------------------
\* C32: the breaker guards the booking create only.  Whatever the
\* breaker's state, a booking update, a booking cancel, an availability
\* check and every review operation answer with the status, and write the
\* rows, that the tables and the request alone determine (none answers
\* 503), and none of them changes the breaker's state, counter or opening
\* time.
\* ---------------------------------------------------------------------
C32_BreakerGuardsCreateOnly ==
    [][ LET op == last'.op
            u == last'.actor
            id == last'.id
            st == last'.status
            admin == role[u] = "admin"
            foundB == {b \in bookings : b.id = id}
            foundR == {r \in reviews : r.id = id}
        IN
        /\ (op \in {"update", "cancel", "check", "create_review", "list_reviews",
                    "update_review", "delete_review", "restore_review",
                    "flag_review", "unflag_review"})
              => /\ cb_state' = cb_state
                 /\ fail_counter' = fail_counter
                 /\ elapsed' = elapsed
                 /\ st # 503
        /\ (op = "update")
              => /\ st = IF foundB = {} THEN 404
                         ELSE IF ~admin /\ \E b \in foundB : b.user_id # u THEN 403
                         ELSE IF ~admin /\ \E o \in bookings :
                                   /\ o.id # id /\ o.room_id = last'.room_id
                                   /\ last'.start_time < o.end_time
                                   /\ o.start_time < last'.end_time
                           THEN 400
                         ELSE 200
                 /\ bookings' = IF st = 200
                                  THEN (bookings \ foundB) \cup
                                       {Booking(id, b.user_id, last'.room_id,
                                                last'.start_time, last'.end_time) :
                                          b \in foundB}
                                  ELSE bookings
        /\ (op = "cancel")
              => /\ st = IF foundB = {} THEN 404
                         ELSE IF ~admin /\ \E b \in foundB : b.user_id # u THEN 403
                         ELSE 200
                 /\ bookings' = IF st = 200 THEN bookings \ foundB ELSE bookings
        /\ (op = "check")
              => /\ st = IF last'.room_id \in rooms THEN 200 ELSE 404
                 /\ st = 200 =>
                      (last'.available <=>
                         ~\E b \in bookings :
                             /\ b.room_id = last'.room_id
                             /\ last'.start_time < b.end_time
                             /\ b.start_time < last'.end_time)
                 /\ bookings' = bookings
        /\ (op = "create_review")
              => /\ st = IF last'.room_id \in rooms THEN 200 ELSE 404
                 /\ reviews' = IF st = 200
                                 THEN reviews \cup
                                      {Review(id, u, last'.room_id, last'.data.rating,
                                              last'.data.comment, FALSE, FALSE)}
                                 ELSE reviews
        /\ (op = "list_reviews")
              => /\ st = 200
                 /\ last'.listed = {r \in reviews : r.room_id = last'.room_id /\ ~r.deleted}
                 /\ reviews' = reviews
        /\ (op = "update_review")
              => /\ st = IF foundR = {} THEN 404
                         ELSE IF \E r \in foundR : r.deleted THEN 400
                         ELSE IF ~admin /\ \E r \in foundR : r.user_id # u THEN 403
                         ELSE 200
                 /\ reviews' = IF st = 200
                                 THEN (reviews \ foundR) \cup
                                      {[r EXCEPT
                                          !.rating = IF "rating" \in DOMAIN last'.data
                                                       THEN last'.data.rating ELSE @,
                                          !.comment = IF "comment" \in DOMAIN last'.data
                                                        THEN last'.data.comment ELSE @] :
                                         r \in foundR}
                                 ELSE reviews
        /\ (op = "delete_review")
              => /\ st = IF foundR = {} THEN 404
                         ELSE IF ~admin /\ \E r \in foundR : r.user_id # u THEN 403
                         ELSE 200
                 /\ reviews' = IF st = 200
                                 THEN (reviews \ foundR) \cup
                                      {[r EXCEPT !.deleted = TRUE] : r \in foundR}
                                 ELSE reviews
        /\ (op \in {"restore_review", "flag_review", "unflag_review"})
              => /\ st = IF ~admin THEN 403 ELSE IF foundR = {} THEN 404 ELSE 200
                 /\ reviews' = IF st = 200
                                 THEN (reviews \ foundR) \cup
                                      {IF op = "restore_review"
                                         THEN [r EXCEPT !.deleted = FALSE]
                                         ELSE [r EXCEPT !.flagged = (op = "flag_review")] :
                                         r \in foundR}
                                 ELSE reviews ]_vars

\* While the breaker is open and rejecting creates, with a review stored,
\* the owner's update of a booking has been answered 200.
C32_Witness ==
    /\ cb_state = "open" /\ elapsed < 60
    /\ last.op = "update" /\ last.status = 200
    /\ role[last.actor] # "admin"
    /\ \E b \in bookings : b.id = last.id /\ b.room_id = last.room_id
    /\ reviews # {}

C34_SelfExcludedByIdScanOnNewRoom ==
    [][ \A own \in bookings :
          ( /\ last'.op = "update" /\ last'.id = own.id
            /\ last'.actor = own.user_id
            /\ role[last'.actor] # "admin" )
          => LET others == {o \in bookings :
                               /\ o.id # own.id
                               /\ o.room_id = last'.room_id
                               /\ last'.start_time < o.end_time
                               /\ o.start_time < last'.end_time}
             IN  /\ last'.status = IF others = {} THEN 200 ELSE 400
                 /\ ( /\ last'.room_id = own.room_id
                      /\ last'.start_time < own.end_time
                      /\ own.start_time < last'.end_time
                      /\ others = {} )
                      => /\ last'.status = 200
                         /\ Booking(own.id, own.user_id, last'.room_id,
                                    last'.start_time, last'.end_time) \in bookings'
                 /\ ( /\ last'.room_id # own.room_id
                      /\ others = {}
                      /\ \E o \in bookings :
                           /\ o.id # own.id /\ o.room_id = own.room_id
                           /\ last'.start_time < o.end_time
                           /\ o.start_time < last'.end_time )
                      => last'.status = 200 ]_vars

\* A non-admin owner's update has been answered 200 and its booking is in
\* the requested room, while a booking of the other room overlaps the
\* requested interval.
C34_Witness ==
    /\ last.op = "update" /\ last.status = 200
    /\ role[last.actor] # "admin"
    /\ \E own \in bookings, o \in bookings :
         /\ own.id = last.id /\ own.user_id = last.actor
         /\ own.room_id = last.room_id
         /\ own.start_time = last.start_time /\ own.end_time = last.end_time
         /\ o.id # own.id /\ o.room_id # own.room_id
         /\ own.start_time < o.end_time /\ o.start_time < own.end_time

\* ---------------------------------------------------------------------
\* C35: every stored booking ends strictly after it starts, whatever
\* creates and updates have been served.
\* ---------------------------------------------------------------------
C35_EndAfterStart ==
    \A b \in bookings : b.start_time < b.end_time

\* ---------------------------------------------------------------------
\* C36: the marks deleted and flagged of a review are independent.  A flag
\* or unflag by an admin succeeds on every existing review, deleted or
\* not, and changes flagged only; a soft delete or a restore that succeeds
\* changes deleted only; and the author's update of a flagged review that
\* is not deleted succeeds.
\* ---------------------------------------------------------------------
C36_DeletedAndFlaggedIndependent ==
    [][ \A r \in reviews :
          (last'.op \in {"flag_review", "unflag_review", "delete_review",
                         "restore_review", "update_review"}
             /\ last'.id = r.id)
          => /\ (last'.op \in {"flag_review", "unflag_review"}
                   /\ role[last'.actor] = "admin")
                  => /\ last'.status = 200
                     /\ reviews' = (reviews \ {r}) \cup
                          {[r EXCEPT !.flagged = (last'.op = "flag_review")]}
             /\ (last'.op \in {"delete_review", "restore_review"}
                   /\ last'.status = 200)
                  => reviews' = (reviews \ {r}) \cup
                          {[r EXCEPT !.deleted = (last'.op = "delete_review")]}
             /\ (last'.op = "update_review" /\ last'.actor = r.user_id
                   /\ r.flagged /\ ~r.deleted)
                  => /\ last'.status = 200
                     /\ \E n \in reviews' :
                          n.id = r.id /\ n.flagged /\ ~n.deleted ]_vars

\* A review that was already deleted has been flagged: it is now deleted
\* and flagged at once.
C36_Witness ==
    /\ last.op = "flag_review" /\ last.status = 200
    /\ \E r \in reviews : r.id = last.id /\ r.deleted /\ r.flagged

\* ---------------------------------------------------------------------
\* C37: the soft delete is idempotent.  A soft delete of a review that is
\* already deleted, by its author or an admin, answers 200 and leaves the
\* table of reviews exactly as it was (deleted, flagged, rating and comment
\* of the review included).  A successful soft delete leaves the review
\* deleted, so a second one right after it gives the state the first gave.
\* ---------------------------------------------------------------------
C37_SoftDeleteIdempotent ==
    [][ \A r \in reviews :
          ( /\ last'.op = "delete_review" /\ last'.id = r.id
            /\ r.deleted
            /\ (last'.actor = r.user_id \/ role[last'.actor] = "admin") )
          => /\ last'.status = 200
             /\ reviews' = reviews ]_vars

\* A soft delete by the review's non-admin author has been answered 200
\* and the review, flagged by an admin, is deleted; the author's next soft
\* delete starts from this state.
C37_Witness ==
    /\ last.op = "delete_review" /\ last.status = 200
    /\ role[last.actor] # "admin"
    /\ \E r \in reviews :
         r.id = last.id /\ r.user_id = last.actor /\ r.deleted /\ r.flagged

\* ---------------------------------------------------------------------
\* C38: every authorization decision is taken on the role stored for the
\* caller when the request is served, never on the role claim of the
\* caller's token (RoleOf, the role at login).  The admin-only routes
\* answer 403 exactly to callers whose stored role is not admin; a change
\* or cancel of another user's booking, a soft delete of another user's
\* review and a change of a role are refused exactly to such callers; and
\* a listing is unfiltered exactly for a stored role of admin or
\* facility_manager.  So a former admin is denied with the token issued
\* earlier, and a user promoted to admin is served with theirs.
\* ---------------------------------------------------------------------
C38_StoredRoleDecides ==
    [][ LET op == last'.op
            u == last'.actor
            stored_admin == role[u] = "admin"
            token_admin == RoleOf[u] = "admin"
        IN
        /\ (op \in {"restore_review", "flag_review", "unflag_review"})
              => /\ (last'.status = 403) <=> ~stored_admin
                 /\ (token_admin /\ ~stored_admin) => last'.status = 403
                 /\ (~token_admin /\ stored_admin) => last'.status # 403
        /\ (op \in {"update", "cancel"}
              /\ \E b \in bookings : b.id = last'.id /\ b.user_id # u)
              => /\ (last'.status = 403) <=> ~stored_admin
                 /\ (token_admin /\ ~stored_admin) => bookings' = bookings
                 /\ (~token_admin /\ stored_admin) => last'.status = 200
        /\ (op = "delete_review"
              /\ \E r \in reviews : r.id = last'.id /\ r.user_id # u)
              => /\ (last'.status = 403) <=> ~stored_admin
                 /\ (token_admin /\ ~stored_admin) => reviews' = reviews
        /\ (op \in {"update_current_user", "update_user"}
              /\ "role" \in DOMAIN last'.data /\ last'.target \in Users)
              => /\ (last'.status = 403) <=> ~stored_admin
                 /\ ~stored_admin => role' = role
                 /\ (~token_admin /\ stored_admin)
                      => role' = [role EXCEPT ![last'.target] = last'.data.role]
        /\ (op = "list")
              => last'.listed = IF role[u] \in {"admin", "facility_manager"}
                                  THEN bookings
                                  ELSE {b \in bookings : b.user_id = u} ]_vars

\* User 1, who logged in as admin, is no longer one, and user 2, who logged
\* in as a regular user and was promoted since, has flagged a review with
\* the token of that login.
C38_Witness ==
    /\ RoleOf[1] = "admin" /\ role[1] # "admin"
    /\ last.op = "flag_review" /\ last.status = 200
    /\ last.actor = 2 /\ RoleOf[2] # "admin" /\ role[2] = "admin"
    /\ \E r \in reviews : r.id = last.id /\ r.flagged

\* ---------------------------------------------------------------------
\* C39 as claimed: after every step the breaker is closed, open or
\* half-open, its failure counter lies between 0 and 3 and is at most 2
\* while the breaker is closed, and a create with force_fail has stored no
\* booking.
\* ---------------------------------------------------------------------
C39_CounterAtMostThree ==
    [][ /\ cb_state' \in {"closed", "open", "half-open"}
        /\ 0 <= fail_counter' /\ fail_counter' <= 3
        /\ cb_state' = "closed" => fail_counter' <= 2
        /\ (last'.op = "create" /\ last'.force_fail) => bookings' = bookings ]_vars

\* C39 as amended: after every step the breaker is closed, open or
\* half-open; its failure counter is at most 2 while the breaker is closed
\* and at least 3 while it is open, where every failed trial adds one more
\* (three when the breaker trips, four after the first failed trial); and
\* a create with force_fail has stored no booking, in any breaker state.
C39_CounterAndForceFail ==
    [][ /\ cb_state' \in {"closed", "open", "half-open"}
        /\ 0 <= fail_counter'
        /\ cb_state' = "closed" => fail_counter' <= 2
        /\ cb_state' = "open" => fail_counter' >= 3
        /\ (cb_state = "open" /\ elapsed >= 60
              /\ last'.op = "create" /\ last'.force_fail)
             => fail_counter' = fail_counter + 1
        /\ (last'.op = "create" /\ last'.force_fail)
             => (bookings' = bookings /\ last'.id = 0 /\ last'.status \in {500, 503}) ]_vars

\* With a booking stored by an earlier create, a failing create sent as
\* the trial has left the breaker open with its counter at four and has
\* stored nothing for its caller's room.
C39_Witness ==
    /\ cb_state = "open" /\ fail_counter = 4
    /\ last.op = "create" /\ last.force_fail /\ last.status = 503
    /\ bookings # {}
    /\ \A b \in bookings : b.room_id # last.room_id

\* ---------------------------------------------------------------------
\* C40: an update scans for overlaps and writes in two separate steps,
\* and nothing serialises the updates of a room.  The scan of a non-admin
\* owner's update refuses it with 400 exactly when the table then holds
\* another booking of the requested room that overlaps the requested
\* interval; an update that has passed its scan is written and answered
\* 200 whatever the table holds by then.  So two updates that both passed
\* the scan before either was written both commit, though each would have
\* been refused had it been scanned after the other's write.
\* ---------------------------------------------------------------------
C40_ScanThenWriteRace ==
    [][ \A c \in Clients :
          /\ ( /\ pending[c].pc = "idle" /\ pending'[c].pc # "idle"
               /\ role[pending'[c].actor] # "admin"
               /\ \E own \in bookings :
                    own.id = pending'[c].id /\ own.user_id = pending'[c].actor )
               => LET clash == \E o \in bookings :
                                  /\ o.id # pending'[c].id
                                  /\ o.room_id = pending'[c].room_id
                                  /\ pending'[c].start_time < o.end_time
                                  /\ o.start_time < pending'[c].end_time
                  IN  /\ clash => (pending'[c].pc = "responded"
                                     /\ pending'[c].status = 400)
                      /\ ~clash => pending'[c].pc = "scanned"
                      /\ bookings' = bookings
          /\ (pending[c].pc = "scanned" /\ pending'[c].pc = "responded")
               => /\ pending'[c].status = 200
                  /\ \E b \in bookings' :
                       /\ b.id = pending[c].id
                       /\ b.room_id = pending[c].room_id
                       /\ b.start_time = pending[c].start_time
                       /\ b.end_time = pending[c].end_time
                  /\ \A b \in bookings : b.id # pending[c].id => b \in bookings' ]_vars

\* Client 2's update had passed its scan when client 1's was written; both
\* were answered 200, and the two bookings they moved, of different ids
\* and owned by the non-admin users who moved them, now overlap in one
\* room.
C40_Witness ==
    /\ pending[1].pc = "responded" /\ pending[2].pc = "responded"
    /\ pending[1].status = 200 /\ pending[2].status = 200
    /\ 2 \in pending[1].in_flight
    /\ role[pending[1].actor] # "admin" /\ role[pending[2].actor] # "admin"
    /\ pending[1].id # pending[2].id
    /\ \E a \in bookings, b \in bookings :
         /\ a.id = pending[1].id /\ a.user_id = pending[1].actor
         /\ b.id = pending[2].id /\ b.user_id = pending[2].actor
         /\ a.room_id = pending[1].room_id /\ b.room_id = pending[2].room_id
         /\ a.start_time = pending[1].start_time /\ a.end_time = pending[1].end_time
         /\ b.start_time = pending[2].start_time /\ b.end_time = pending[2].end_time
         /\ a.room_id = b.room_id
         /\ a.start_time < b.end_time /\ b.start_time < a.end_time

====
